---- MODULE Spec2Model ----
(***************************************************************************)
(* State-machine model of tritet's builders: Trigen (src/src/trigen.rs)    *)
(* and Tetgen (src/src/tetgen.rs).  One builder is constructed, filled by  *)
(* its indexed setters, asked to generate, read through its out_*          *)
(* accessors and finally dropped.  The native engine behind the extern "C" *)
(* functions is not part of the Rust sources; the operators named tri_* / *)
(* tet_* model it from the specification and from the unit tests.          *)
(***************************************************************************)
EXTENDS Integers, Sequences, FiniteSets, TLC

(***************************************************************************)
(* Bounds of the model.                                                    *)
(***************************************************************************)
\* largest point capacity passed to Trigen::new
MaxNPoint == 4
\* largest point capacity passed to Tetgen::new; point indices range over 0..MaxTetNPoint
MaxTetNPoint == 4
\* largest segment capacity passed to Trigen::new
MaxNSegment == 3
\* largest region capacity and largest hole capacity passed to new
MaxNRegion == 2
\* largest number of facets passed to Tetgen::new
MaxNFacet == 4
\* largest arity of a facet passed to Tetgen::new
MaxFacetNPoint == 3
\* facet_point_set_count is followed up to this many writes past total_facet_npoint
MaxExtraFacetWrites == 1
\* largest local node index passed to out_cell_point
MaxLocalNode == 10
\* largest index passed to an accessor: it lies past every output array
MaxOutIndex == 10
\* number of threads that build a mesh at the same time
NumThreads == 2

(***************************************************************************)
(* Program constants.                                                      *)
(***************************************************************************)
I32_MAX == 2147483647
TRIGEN_MIN_NPOINT == 3
TRIGEN_MIN_NSEGMENT == 3
TETGEN_MIN_NPOINT == 4
TETGEN_MIN_NFACET == 4
TETGEN_MIN_FACET_NPOINT == 3
TRITET_SUCCESS == 0
TRITET_ERROR_NULL_DATA == 10
TRITET_ERROR_STRING_CONCAT == 20
TRITET_ERROR_INITIALIZE_FAILED == 30
TRITET_ERROR_NULL_POINT_LIST == 100
TRITET_ERROR_NULL_SEGMENT_LIST == 200
TRITET_ERROR_NULL_REGION_LIST == 500
TRITET_ERROR_NULL_HOLE_LIST == 600
TRITET_ERROR_INVALID_POINT_INDEX == 1000
TRITET_ERROR_INVALID_SEGMENT_INDEX == 2000
TRITET_ERROR_INVALID_SEGMENT_POINT_ID == 3000
TRITET_ERROR_INVALID_FACET_INDEX == 4000
TRITET_ERROR_INVALID_FACET_POINT_INDEX == 5000
TRITET_ERROR_INVALID_FACET_POINT_ID == 6000
TRITET_ERROR_INVALID_REGION_INDEX == 7000
TRITET_ERROR_INVALID_HOLE_INDEX == 8000
TETGEN_ERROR_COPLANAR == 1
TRITET_TO_TRIANGLE == <<0, 1, 2, 5, 3, 4>>
TRITET_TO_TETGEN == <<0, 1, 2, 3, 6, 7, 9, 5, 8, 4>>

(***************************************************************************)
(* Values.  A usize that fits TLC's integers is itself; USIZE_OVER stands  *)
(* for every usize above i32::MAX (2^31 .. 2^64-1).  Option<T> is a        *)
(* sequence of length 0 (None) or 1 (Some).                                *)
(***************************************************************************)
USIZE_OVER == -1
None == <<>>
Some(v) == <<v>>
IsSome(o) == o # None
Unwrap(o) == o[1]

\* a < n for a usize a and a small literal n
ULess(a, n) == a # USIZE_OVER /\ a < n

\* i32::try_from(num) is Ok
to_i32_ok(num) == num # USIZE_OVER /\ num <= I32_MAX
to_i32(num) == IF to_i32_ok(num) THEN num ELSE USIZE_OVER

\* every to_i32 of a list of usize arguments returns (none unwraps an Err)
AllFit(nums) == \A i \in 1..Len(nums) : to_i32(nums[i]) # USIZE_OVER

\* `raw as usize` for an i32: a negative value wraps to a usize above i32::MAX
as_usize(raw) == IF raw < 0 THEN USIZE_OVER ELSE raw

RECURSIVE SumSeq(_)
SumSeq(s) == IF s = <<>> THEN 0 ELSE Head(s) + SumSeq(Tail(s))

VARIABLES
    phase,                  \* "none" | "live" | "panicked" | "dropped"
    kind,                   \* "none" | "Trigen" | "Tetgen"
    npoint,                 \* number of input points
    nsegment,               \* Trigen: Option, number of input segments
    facet_npoint,           \* Tetgen: Option, number of points on each facet
    total_facet_npoint,     \* Tetgen: total number of facet points
    facet_point_set_count,  \* Tetgen: number of facet points already set
    nregion,                \* Option, number of regions
    nhole,                  \* Option, number of holes
    all_points_set,
    all_segments_set,       \* Trigen
    all_facets_set,         \* Tetgen
    all_regions_set,
    all_holes_set,
    ext,                    \* the engine's handle: "null" | "live" | "released"
    in_points,              \* engine input: the point indices written so far
    in_segments,            \* engine input: the segment indices written so far
    out,                    \* engine output model
    last,                   \* the last call: op, args, result, engine calls
    caller,                 \* the calling program: which arguments it passes
    in_facets,              \* engine input: the (facet, corner) pairs written so far
    facet_rewritten,        \* engine input: some pair has been written more than once
    ndrop,                  \* the number of calls of the engine's release function
    fs,                     \* the file system at the path given to write_vtu
    threads                 \* the threads of a program that builds in parallel

capacities == <<npoint, nsegment, facet_npoint, total_facet_npoint, nregion, nhole>>
flags == <<all_points_set, all_segments_set, all_facets_set, all_regions_set, all_holes_set>>
tracker == <<flags, facet_point_set_count>>
builder == <<kind, capacities, tracker>>
engine == <<ext, in_points, in_segments, in_facets, facet_rewritten, out>>
world == <<ndrop, fs, threads>>
vars == <<phase, builder, engine, last, caller, world>>

(***************************************************************************)
(* The arguments the calling program passes.  The callers share the       *)
(* operations: "construct" passes every kind of constructor argument and   *)
(* declares regions and holes; "fill" writes points and segments in every  *)
(* order; "facets" passes every kind of facet index; "order" writes facet  *)
(* corners in several orders; "read" calls the accessors and exports.      *)
(* Outside its own subject a caller passes one fixed argument (it writes   *)
(* the last point only).                                                   *)
(***************************************************************************)
Callers == {"construct", "fill", "facets", "order", "read"}

\* facet arities: n facets of arity 3, the last one of arity k
FacetVec(n, k) == [i \in 1..n |-> IF i = n THEN k ELSE TETGEN_MIN_FACET_NPOINT]

\* arguments of Trigen::new and Tetgen::new
NPointInputs ==
    IF caller = "construct" THEN (0..MaxNPoint) \cup {USIZE_OVER}
    ELSE TRIGEN_MIN_NPOINT..MaxNPoint
TetNPointInputs ==
    IF caller = "construct" THEN (0..MaxTetNPoint) \cup {USIZE_OVER}
    ELSE TETGEN_MIN_NPOINT..MaxTetNPoint
NSegmentInputs ==
    CASE caller = "construct" ->
            {None, Some(USIZE_OVER)}
            \cup {Some(n) : n \in (TRIGEN_MIN_NSEGMENT - 1)..MaxNSegment}
      [] caller = "fill" -> {None} \cup {Some(n) : n \in TRIGEN_MIN_NSEGMENT..MaxNSegment}
      [] OTHER -> {Some(TRIGEN_MIN_NSEGMENT)}
NRegionInputs ==
    IF caller = "construct" THEN {None, Some(USIZE_OVER), Some(MaxNRegion)} ELSE {None}
NHoleInputs == IF caller = "construct" THEN {None, Some(MaxNRegion)} ELSE {None}
FacetNPointInputs ==
    CASE caller = "construct" ->
            {None} \cup
            {Some(FacetVec(n, k)) : n \in {0} \cup ((TETGEN_MIN_NFACET - 1)..MaxNFacet),
                                    k \in (TETGEN_MIN_FACET_NPOINT - 1)..MaxFacetNPoint}
            \cup {Some([FacetVec(MaxNFacet, k) EXCEPT ![1] = USIZE_OVER]) :
                     k \in (TETGEN_MIN_FACET_NPOINT - 1)..MaxFacetNPoint}
      [] caller = "fill" -> {None}
      [] caller = "facets" ->
            {Some(FacetVec(n, k)) : n \in TETGEN_MIN_NFACET..MaxNFacet,
                                    k \in TETGEN_MIN_FACET_NPOINT..MaxFacetNPoint}
      [] OTHER -> {Some(FacetVec(TETGEN_MIN_NFACET, TETGEN_MIN_FACET_NPOINT))}
\* whether the engine allocates the handle
AllocatedInputs == IF caller = "construct" THEN BOOLEAN ELSE {TRUE}

\* arguments of Trigen's setters
IndexInputs == IF caller = "fill" THEN (0..MaxNPoint) \cup {USIZE_OVER} ELSE {npoint - 1}
SegmentInputs ==
    IF caller = "fill"
    THEN {<<index, ab[1], ab[2]>> :
            index \in (0..MaxNSegment) \cup {USIZE_OVER},
            ab \in {<<0, 1>>, <<MaxNPoint, 1>>, <<0, MaxNPoint>>, <<USIZE_OVER, 1>>,
                    <<0, USIZE_OVER>>}}
    ELSE {<<IF IsSome(nsegment) THEN Unwrap(nsegment) - 1 ELSE 0, 0, 1>>}
\* an optional constraint (a maximal area or volume, a minimal angle) given by the caller
ConstraintInputs == IF caller \in {"construct", "read"} THEN {None, Some(1)} ELSE {None}
\* arguments of set_region (index, attribute) and of set_hole, of both builders
RegionInputs ==
    IF caller = "construct"
    THEN {<<index, attribute>> : index \in (0..MaxNRegion) \cup {USIZE_OVER},
                                 attribute \in {1, USIZE_OVER}}
    ELSE {<<0, 1>>}
HoleInputs == IF caller = "construct" THEN (0..MaxNRegion) \cup {USIZE_OVER} ELSE {0}

\* whether the caller asks generate_mesh for second-order cells
OrderInputs == IF caller = "read" THEN BOOLEAN ELSE {FALSE}

\* arguments of Tetgen's setters
TetIndexInputs == IF caller = "fill" THEN (0..MaxTetNPoint) \cup {USIZE_OVER} ELSE {npoint - 1}
FacetIndexInputs == IF caller = "facets" THEN (0..MaxNFacet) \cup {USIZE_OVER} ELSE {0}
\* the (facet, corner) pairs declared at construction
DeclaredFacetPairs ==
    IF facet_npoint = None THEN {}
    ELSE {pair \in (0..(Len(Unwrap(facet_npoint)) - 1)) \X (0..(MaxFacetNPoint - 1)) :
            pair[2] < Unwrap(facet_npoint)[pair[1] + 1]}
\* the first corner not yet written of the facets after facet 0, in the order of the list
NextFacetPairs ==
    LET later == {pair \in DeclaredFacetPairs \ in_facets : pair[1] >= 1} IN
    {pair \in later :
        \A other \in later :
            other[1] > pair[1] \/ (other[1] = pair[1] /\ other[2] >= pair[2])}
\* "facets" passes every kind of wrong index; "order" writes the corners of facet 0 in
\* every order and any number of times, and the corners of the other facets in the order
\* of the list
FacetPointInputs ==
    CASE caller = "facets" ->
            {<<0, m, 0>> : m \in (0..MaxFacetNPoint) \cup {USIZE_OVER}}
            \cup {<<index, 0, 0>> : index \in {MaxNFacet, USIZE_OVER}}
            \cup {<<index, 0, p>> : index \in {0, MaxNFacet},
                                    p \in {MaxTetNPoint, USIZE_OVER}}
      [] caller = "order" ->
            {<<0, m, 0>> : m \in 0..(TETGEN_MIN_FACET_NPOINT - 1)}
            \cup {<<pair[1], pair[2], 0>> : pair \in NextFacetPairs}
      [] OTHER -> {<<0, 0, 0>>, <<0, 1, 0>>}

\* the record of a call: its arguments, its result, the value it returned, the entry points
\* of the engine it called and, for each optional constraint, the pair of what the caller
\* gave and what the engine was passed
Call(op, args, res, val, calls) ==
    [op |-> op, args |-> args, res |-> res, val |-> val, calls |-> calls, passed |-> <<>>]

\* Result::Ok
Ok == "Ok"
\* the call panicked (an unwrap of Err, an index past the end of an array)
PANIC == "PANIC"

\* a panic ends the program: no call follows it; the stack unwinds
Panic(op, args) ==
    /\ phase' = "panicked"
    /\ last' = Call(op, args, PANIC, <<>>, <<>>)
    /\ UNCHANGED <<builder, engine, caller, world>>

(***************************************************************************)
(* Engine output.  Coordinates are in units of 1/2.                        *)
(***************************************************************************)
EmptyOut ==
    [npoint |-> 0, ncell |-> 0, cell_npoint |-> 0, nsegment |-> 0,
     points |-> <<>>, point_markers |-> <<>>,
     cells |-> <<>>, cell_attributes |-> <<>>,
     segments |-> <<>>, segment_markers |-> <<>>,
     voronoi_points |-> <<>>, voronoi_edges |-> <<>>, voronoi_directions |-> <<>>,
     marked_faces |-> <<>>]

\* the threads spawned by the program; each one owns its builder
Threads == 1..NumThreads
\* the calls of the engine one thread makes, in order: a builder is constructed, filled,
\* asked for a mesh, and dropped at the end of its scope
ThreadProgram ==
    <<"tri_new_trigen", "tri_set_point", "tri_set_segment", "tri_set_region", "tri_set_hole",
      "tri_run_triangulate", "tri_drop_trigen">>

Init ==
    /\ phase = "none"
    /\ kind = "none"
    /\ npoint = 0
    /\ nsegment = None
    /\ facet_npoint = None
    /\ total_facet_npoint = 0
    /\ facet_point_set_count = 0
    /\ nregion = None
    /\ nhole = None
    /\ all_points_set = FALSE
    /\ all_segments_set = FALSE
    /\ all_facets_set = FALSE
    /\ all_regions_set = FALSE
    /\ all_holes_set = FALSE
    /\ ext = "null"
    /\ in_points = {}
    /\ in_segments = {}
    /\ out = EmptyOut
    /\ last = Call("init", <<>>, Ok, <<>>, <<>>)
    /\ caller \in Callers
    /\ in_facets = {}
    /\ facet_rewritten = FALSE
    /\ ndrop = 0
    /\ fs = [dir |-> FALSE, file |-> "absent"]
    /\ threads = [t \in Threads |-> [pc |-> 1, inside |-> FALSE]]

\* argument list of an Option<usize>: its value when Some
OptArgs(o) == IF IsSome(o) THEN <<Unwrap(o)>> ELSE <<>>

\* the construction did not produce a builder
NewFails(op, args, res, calls) ==
    /\ last' = Call(op, args, res, <<>>, calls)
    /\ UNCHANGED <<phase, builder, engine, caller, world>>

\* Trigen::new
TrigenNewOutcome(np, ns, nr, nh, allocated) ==
    LET args == <<np, ns, nr, nh>> IN
    IF ULess(np, TRIGEN_MIN_NPOINT)
    THEN NewFails("Trigen::new", args, "npoint must be >= 3", <<>>)
    ELSE IF IsSome(ns) /\ ULess(Unwrap(ns), TRIGEN_MIN_NSEGMENT)
    THEN NewFails("Trigen::new", args, "nsegment must be >= 3", <<>>)
    ELSE IF ~AllFit(<<np>> \o OptArgs(ns) \o OptArgs(nr) \o OptArgs(nh))
    THEN Panic("Trigen::new", args)
    ELSE IF ~allocated
    THEN NewFails("Trigen::new", args, "INTERNAL ERROR: cannot allocate ExtTriangle",
                  <<"tri_new_trigen">>)
    ELSE /\ phase' = "live"
         /\ kind' = "Trigen"
         /\ ext' = "live"
         /\ npoint' = np
         /\ nsegment' = ns
         /\ nregion' = nr
         /\ nhole' = nh
         /\ all_points_set' = FALSE
         /\ all_segments_set' = FALSE
         /\ all_regions_set' = FALSE
         /\ all_holes_set' = FALSE
         /\ last' = Call("Trigen::new", args, Ok, <<>>, <<"tri_new_trigen">>)
         /\ UNCHANGED <<facet_npoint, total_facet_npoint, facet_point_set_count,
                        all_facets_set, in_points, in_segments, out,
                        caller, in_facets, facet_rewritten, world>>

TrigenNew ==
    /\ phase = "none"
    /\ \E np \in NPointInputs, ns \in NSegmentInputs, nr \in NRegionInputs,
          nh \in NHoleInputs, allocated \in AllocatedInputs :
          TrigenNewOutcome(np, ns, nr, nh, allocated)


\* the loop over the facets as it would be without the check of the arity
FacetLoop_unchecked(facets) ==
    IF \A k \in 1..Len(facets) : to_i32_ok(facets[k]) THEN Ok ELSE PANIC

\* the loop of Tetgen::new over the facets: it stops at the first arity that is below the
\* minimum (an error) or that does not fit an i32 (a panic)
FacetLoop(facets) ==
    LET stops == {k \in 1..Len(facets) :
                    ULess(facets[k], TETGEN_MIN_FACET_NPOINT) \/ ~to_i32_ok(facets[k])}
    IN IF stops = {} THEN Ok
       ELSE LET first == CHOOSE k \in stops : \A j \in stops : k <= j
            IN IF ULess(facets[first], TETGEN_MIN_FACET_NPOINT) THEN "Err" ELSE PANIC

\* Tetgen::new
TetgenNewOutcome(np, fnp, nr, nh, allocated) ==
    LET args == <<np, fnp, nr, nh>>
        facets == IF IsSome(fnp) THEN Unwrap(fnp) ELSE <<>>
    IN
    IF ULess(np, TETGEN_MIN_NPOINT)
    THEN NewFails("Tetgen::new", args, "npoint must be >= 4", <<>>)
    ELSE IF ~to_i32_ok(np)
    THEN Panic("Tetgen::new", args)
    ELSE IF IsSome(fnp) /\ to_i32(Len(facets)) < TETGEN_MIN_NFACET
    THEN NewFails("Tetgen::new", args, "nfacet must be >= 4", <<>>)
    ELSE IF FacetLoop(facets) = "Err"
    THEN NewFails("Tetgen::new", args, "facet npoint must be >= 3", <<>>)
    ELSE IF FacetLoop(facets) = PANIC \/ ~AllFit(OptArgs(nr) \o OptArgs(nh))
    THEN Panic("Tetgen::new", args)
    ELSE IF ~allocated
    THEN NewFails("Tetgen::new", args, "INTERNAL ERROR: cannot allocate ExtTetgen",
                  <<"tet_new_tetgen">>)
    ELSE /\ phase' = "live"
         /\ kind' = "Tetgen"
         /\ ext' = "live"
         /\ npoint' = np
         /\ facet_npoint' = fnp
         /\ total_facet_npoint' = SumSeq(facets)
         /\ facet_point_set_count' = 0
         /\ nregion' = nr
         /\ nhole' = nh
         /\ all_points_set' = FALSE
         /\ all_facets_set' = FALSE
         /\ all_regions_set' = FALSE
         /\ all_holes_set' = FALSE
         /\ last' = Call("Tetgen::new", args, Ok, <<>>, <<"tet_new_tetgen">>)
         /\ UNCHANGED <<nsegment, all_segments_set, in_points, in_segments, out,
                        caller, in_facets, facet_rewritten, world>>

TetgenNew ==
    /\ phase = "none"
    /\ \E np \in TetNPointInputs, fnp \in FacetNPointInputs, nr \in NRegionInputs,
          nh \in NHoleInputs, allocated \in AllocatedInputs :
          TetgenNewOutcome(np, fnp, nr, nh, allocated)

(***************************************************************************)
(* The engine's setters (the C interface): the status each returns.        *)
(***************************************************************************)
tri_set_point(index) ==
    IF index >= npoint THEN TRITET_ERROR_INVALID_POINT_INDEX ELSE TRITET_SUCCESS

tri_set_segment(index, a, b) ==
    IF index >= Unwrap(nsegment) THEN TRITET_ERROR_INVALID_SEGMENT_INDEX
    ELSE IF a >= npoint \/ b >= npoint THEN TRITET_ERROR_INVALID_SEGMENT_POINT_ID
    ELSE TRITET_SUCCESS

tri_set_region(index) ==
    IF index >= Unwrap(nregion) THEN TRITET_ERROR_INVALID_REGION_INDEX ELSE TRITET_SUCCESS

tri_set_hole(index) ==
    IF index >= Unwrap(nhole) THEN TRITET_ERROR_INVALID_HOLE_INDEX ELSE TRITET_SUCCESS

tet_set_point(index) ==
    IF index >= npoint THEN TRITET_ERROR_INVALID_POINT_INDEX ELSE TRITET_SUCCESS

tet_set_facet_point(index, m, p) ==
    LET facets == Unwrap(facet_npoint) IN
    IF index >= Len(facets) THEN TRITET_ERROR_INVALID_FACET_INDEX
    ELSE IF m >= facets[index + 1] THEN TRITET_ERROR_INVALID_FACET_POINT_INDEX
    ELSE IF p >= npoint THEN TRITET_ERROR_INVALID_FACET_POINT_ID
    ELSE TRITET_SUCCESS

tet_set_facet_marker(index) ==
    IF index >= Len(Unwrap(facet_npoint)) THEN TRITET_ERROR_INVALID_FACET_INDEX
    ELSE TRITET_SUCCESS

tet_set_region(index) ==
    IF index >= Unwrap(nregion) THEN TRITET_ERROR_INVALID_REGION_INDEX ELSE TRITET_SUCCESS

tet_set_hole(index) ==
    IF index >= Unwrap(nhole) THEN TRITET_ERROR_INVALID_HOLE_INDEX ELSE TRITET_SUCCESS

\* constants::handle_status: the error of a status of the engine
handle_status(status) ==
    CASE status = TRITET_SUCCESS -> Ok
      [] status = TRITET_ERROR_NULL_DATA -> "INTERNAL ERROR: found NULL data"
      [] status = TRITET_ERROR_NULL_POINT_LIST -> "INTERNAL ERROR: found NULL point list"
      [] status = TRITET_ERROR_INVALID_POINT_INDEX -> "index of point is out of bounds"
      [] status = TRITET_ERROR_INVALID_FACET_INDEX -> "index of facet is out of bounds"
      [] status = TRITET_ERROR_INVALID_FACET_POINT_INDEX ->
            "index of facet point is out of bounds"
      [] status = TRITET_ERROR_INVALID_FACET_POINT_ID -> "id of facet point is out of bounds"
      [] status = TRITET_ERROR_INVALID_REGION_INDEX -> "index of region is out of bounds"
      [] status = TRITET_ERROR_INVALID_HOLE_INDEX -> "index of hole is out of bounds"
      [] status = TETGEN_ERROR_COPLANAR -> "TetGen failed: points are probably coplanar"
      [] OTHER -> "INTERNAL ERROR: some error occurred"

(***************************************************************************)
(* Setters.                                                                *)
(***************************************************************************)
\* a failing setter as it would be if it cleared the point flag before returning Err
SetterFails_clearing(op, args, res, calls) ==
    /\ last' = Call(op, args, res, <<>>, calls)
    /\ all_points_set' = FALSE
    /\ UNCHANGED <<phase, kind, capacities, all_segments_set, all_facets_set,
                   all_regions_set, all_holes_set, facet_point_set_count, engine,
                   caller, world>>

\* a setter returned Err: nothing of the builder or of the engine input changed
SetterFails(op, args, res, calls) ==
    /\ last' = Call(op, args, res, <<>>, calls)
    /\ UNCHANGED <<phase, builder, engine, caller, world>>

\* the error Trigen::set_point returns for a status other than TRITET_SUCCESS
Trigen_set_point_error(status) ==
    IF status = TRITET_ERROR_NULL_DATA THEN "INTERNAL ERROR: found NULL data"
    ELSE IF status = TRITET_ERROR_NULL_POINT_LIST THEN "INTERNAL ERROR: found NULL point list"
    ELSE IF status = TRITET_ERROR_INVALID_POINT_INDEX THEN "index of point is out of bounds"
    ELSE "INTERNAL ERROR: some error occurred"

\* the test of the last index as it would be if it compared with the capacity itself
LastIndexWritten_capacity(index, capacity) == index = capacity

\* the completion flag after a successful write of `index` among `capacity` entities
LastIndexWritten(index, capacity) == index = capacity - 1

\* Trigen::set_point
Trigen_set_point_step(index) ==
    IF ~to_i32_ok(index) THEN Panic("set_point", <<index>>)
    ELSE LET status == tri_set_point(to_i32(index)) IN
         IF status # TRITET_SUCCESS
         THEN SetterFails("set_point", <<index>>, Trigen_set_point_error(status),
                          <<"tri_set_point">>)
         ELSE /\ in_points' = in_points \cup {index}
              /\ all_points_set' = LastIndexWritten(index, npoint)
              /\ last' = Call("set_point", <<index>>, Ok, <<>>, <<"tri_set_point">>)
              /\ UNCHANGED <<phase, kind, capacities, all_segments_set, all_facets_set,
                             all_regions_set, all_holes_set, facet_point_set_count,
                             ext, in_segments, out, caller, in_facets, facet_rewritten, world>>

Trigen_set_point ==
    /\ phase = "live" /\ kind = "Trigen"
    /\ \E index \in IndexInputs : Trigen_set_point_step(index)

\* the error Trigen::set_segment returns for a status other than TRITET_SUCCESS
Trigen_set_segment_error(status) ==
    IF status = TRITET_ERROR_NULL_DATA THEN "INTERNAL ERROR: found NULL data"
    ELSE IF status = TRITET_ERROR_NULL_SEGMENT_LIST
    THEN "INTERNAL ERROR: found NULL segment list"
    ELSE IF status = TRITET_ERROR_INVALID_SEGMENT_INDEX
    THEN "index of segment is out of bounds"
    ELSE IF status = TRITET_ERROR_INVALID_SEGMENT_POINT_ID
    THEN "id of segment point is out of bounds"
    ELSE "INTERNAL ERROR: some error occurred"

\* Trigen::set_segment
Trigen_set_segment_step(index, a, b) ==
    LET args == <<index, a, b>> IN
    IF nsegment = None
    THEN SetterFails("set_segment", args,
                     "cannot set segment because the number of segments is None", <<>>)
    ELSE IF ~AllFit(args) THEN Panic("set_segment", args)
    ELSE LET status == tri_set_segment(to_i32(index), to_i32(a), to_i32(b)) IN
         IF status # TRITET_SUCCESS
         THEN SetterFails("set_segment", args, Trigen_set_segment_error(status),
                          <<"tri_set_segment">>)
         ELSE /\ in_segments' = in_segments \cup {index}
              /\ all_segments_set' = LastIndexWritten(index, Unwrap(nsegment))
              /\ last' = Call("set_segment", args, Ok, <<>>, <<"tri_set_segment">>)
              /\ UNCHANGED <<phase, kind, capacities, all_points_set, all_facets_set,
                             all_regions_set, all_holes_set, facet_point_set_count,
                             ext, in_points, out, caller, in_facets, facet_rewritten, world>>

Trigen_set_segment ==
    /\ phase = "live" /\ kind = "Trigen"
    /\ \E args \in SegmentInputs : Trigen_set_segment_step(args[1], args[2], args[3])

\* the error Trigen::set_region returns for a status other than TRITET_SUCCESS
Trigen_set_region_error(status) ==
    IF status = TRITET_ERROR_NULL_DATA THEN "INTERNAL ERROR: found NULL data"
    ELSE IF status = TRITET_ERROR_NULL_REGION_LIST
    THEN "INTERNAL ERROR: found NULL region list"
    ELSE IF status = TRITET_ERROR_INVALID_REGION_INDEX
    THEN "index of region is out of bounds"
    ELSE "INTERNAL ERROR: some error occurred"

\* Trigen::set_region
Trigen_set_region_step(index, attribute, max_area) ==
    LET args == <<index, attribute>>
        area_constraint == IF IsSome(max_area) THEN Unwrap(max_area) ELSE -1
    IN
    IF nregion = None
    THEN SetterFails("set_region", args,
                     "cannot set region because the number of regions is None", <<>>)
    ELSE IF ~AllFit(args) THEN Panic("set_region", args)
    ELSE LET status == tri_set_region(to_i32(index)) IN
         IF status # TRITET_SUCCESS
         THEN SetterFails("set_region", args, Trigen_set_region_error(status),
                          <<"tri_set_region">>)
         ELSE /\ all_regions_set' = LastIndexWritten(index, Unwrap(nregion))
              /\ last' = [Call("set_region", args, Ok, <<>>, <<"tri_set_region">>)
                             EXCEPT !.passed = <<<<max_area, area_constraint>>>>]
              /\ UNCHANGED <<phase, kind, capacities, all_points_set, all_segments_set,
                             all_facets_set, all_holes_set, facet_point_set_count, engine,
                             caller, world>>

Trigen_set_region ==
    /\ phase = "live" /\ kind = "Trigen"
    /\ \E args \in RegionInputs, max_area \in ConstraintInputs :
          Trigen_set_region_step(args[1], args[2], max_area)

\* the error Trigen::set_hole returns for a status other than TRITET_SUCCESS
Trigen_set_hole_error(status) ==
    IF status = TRITET_ERROR_NULL_DATA THEN "INTERNAL ERROR: found NULL data"
    ELSE IF status = TRITET_ERROR_NULL_HOLE_LIST THEN "INTERNAL ERROR: found NULL hole list"
    ELSE IF status = TRITET_ERROR_INVALID_HOLE_INDEX THEN "index of hole is out of bounds"
    ELSE "INTERNAL ERROR: some error occurred"

\* Trigen::set_hole
Trigen_set_hole_step(index) ==
    IF nhole = None
    THEN SetterFails("set_hole", <<index>>,
                     "cannot set hole because the number of holes is None", <<>>)
    ELSE IF ~to_i32_ok(index) THEN Panic("set_hole", <<index>>)
    ELSE LET status == tri_set_hole(to_i32(index)) IN
         IF status # TRITET_SUCCESS
         THEN SetterFails("set_hole", <<index>>, Trigen_set_hole_error(status),
                          <<"tri_set_hole">>)
         ELSE /\ all_holes_set' = LastIndexWritten(index, Unwrap(nhole))
              /\ last' = Call("set_hole", <<index>>, Ok, <<>>, <<"tri_set_hole">>)
              /\ UNCHANGED <<phase, kind, capacities, all_points_set, all_segments_set,
                             all_facets_set, all_regions_set, facet_point_set_count, engine,
                             caller, world>>

Trigen_set_hole ==
    /\ phase = "live" /\ kind = "Trigen"
    /\ \E index \in HoleInputs : Trigen_set_hole_step(index)


\* Tetgen::set_point
Tetgen_set_point_step(index) ==
    IF ~to_i32_ok(index) THEN Panic("set_point", <<index>>)
    ELSE LET status == tet_set_point(to_i32(index)) IN
         IF handle_status(status) # Ok
         THEN SetterFails("set_point", <<index>>, handle_status(status), <<"tet_set_point">>)
         ELSE /\ in_points' = in_points \cup {index}
              /\ all_points_set' = LastIndexWritten(index, npoint)
              /\ last' = Call("set_point", <<index>>, Ok, <<>>, <<"tet_set_point">>)
              /\ UNCHANGED <<phase, kind, capacities, all_segments_set, all_facets_set,
                             all_regions_set, all_holes_set, facet_point_set_count,
                             ext, in_segments, out, caller, in_facets, facet_rewritten, world>>

Tetgen_set_point ==
    /\ phase = "live" /\ kind = "Tetgen"
    /\ \E index \in TetIndexInputs : Tetgen_set_point_step(index)

\* facet_point_set_count after a successful write of corner m of facet index
FacetPointSetCount(index, m) ==
    (IF index = 0 /\ m = 0 THEN 0 ELSE facet_point_set_count) + 1

\* all_facets_set as it would be if it followed the counter, as all_points_set follows the
\* index of the last write
AllFacetsSet_following(count) == count = total_facet_npoint

\* all_facets_set after a write that leaves the counter at `count`
AllFacetsSet(count) == IF count = total_facet_npoint THEN TRUE ELSE all_facets_set

\* set_facet_point as it would be if a builder without facets counted as complete
Tetgen_set_facet_point_vacuous(index, m, p) ==
    LET args == <<index, m, p>> IN
    IF facet_npoint = None
    THEN /\ all_facets_set' = TRUE
         /\ last' = Call("set_facet_point", args, Ok, <<>>, <<>>)
         /\ UNCHANGED <<phase, kind, capacities, all_points_set, all_segments_set,
                        all_regions_set, all_holes_set, facet_point_set_count, engine,
                        caller, world>>
    ELSE IF ~AllFit(args) THEN Panic("set_facet_point", args)
    ELSE LET status == tet_set_facet_point(to_i32(index), to_i32(m), to_i32(p)) IN
         IF handle_status(status) # Ok
         THEN SetterFails("set_facet_point", args, handle_status(status),
                          <<"tet_set_facet_point">>)
         ELSE /\ FacetPointSetCount(index, m) <= total_facet_npoint + MaxExtraFacetWrites
              /\ facet_point_set_count' = FacetPointSetCount(index, m)
              /\ all_facets_set' = AllFacetsSet(FacetPointSetCount(index, m))
              /\ in_facets' = in_facets \cup {<<index, m>>}
              /\ facet_rewritten' = (facet_rewritten \/ <<index, m>> \in in_facets)
              /\ last' = Call("set_facet_point", args, Ok, <<>>, <<"tet_set_facet_point">>)
              /\ UNCHANGED <<phase, kind, capacities, all_points_set, all_segments_set,
                             all_regions_set, all_holes_set, ext, in_points, in_segments,
                             out, caller, world>>

\* Tetgen::set_facet_point
Tetgen_set_facet_point_step(index, m, p) ==
    LET args == <<index, m, p>> IN
    IF facet_npoint = None
    THEN SetterFails("set_facet_point", args,
                     "cannot set facet point because facet_npoint is None", <<>>)
    ELSE IF ~AllFit(args) THEN Panic("set_facet_point", args)
    ELSE LET status == tet_set_facet_point(to_i32(index), to_i32(m), to_i32(p)) IN
         IF handle_status(status) # Ok
         THEN SetterFails("set_facet_point", args, handle_status(status),
                          <<"tet_set_facet_point">>)
         ELSE /\ FacetPointSetCount(index, m) <= total_facet_npoint + MaxExtraFacetWrites
              /\ facet_point_set_count' = FacetPointSetCount(index, m)
              /\ all_facets_set' = AllFacetsSet(FacetPointSetCount(index, m))
              /\ in_facets' = in_facets \cup {<<index, m>>}
              /\ facet_rewritten' = (facet_rewritten \/ <<index, m>> \in in_facets)
              /\ last' = Call("set_facet_point", args, Ok, <<>>, <<"tet_set_facet_point">>)
              /\ UNCHANGED <<phase, kind, capacities, all_points_set, all_segments_set,
                             all_regions_set, all_holes_set, ext, in_points, in_segments,
                             out, caller, world>>

Tetgen_set_facet_point ==
    /\ phase = "live" /\ kind = "Tetgen"
    /\ \E args \in FacetPointInputs : Tetgen_set_facet_point_step(args[1], args[2], args[3])

\* Tetgen::set_facet_marker
Tetgen_set_facet_marker_step(index) ==
    IF facet_npoint = None
    THEN SetterFails("set_facet_marker", <<index>>,
                     "cannot set facet marker because facet_npoint is None", <<>>)
    ELSE IF ~to_i32_ok(index) THEN Panic("set_facet_marker", <<index>>)
    ELSE LET status == tet_set_facet_marker(to_i32(index)) IN
         IF handle_status(status) # Ok
         THEN SetterFails("set_facet_marker", <<index>>, handle_status(status),
                          <<"tet_set_facet_marker">>)
         ELSE /\ last' = Call("set_facet_marker", <<index>>, Ok, <<>>,
                              <<"tet_set_facet_marker">>)
              /\ UNCHANGED <<phase, builder, engine, caller, world>>

Tetgen_set_facet_marker ==
    /\ phase = "live" /\ kind = "Tetgen"
    /\ \E index \in FacetIndexInputs : Tetgen_set_facet_marker_step(index)

\* Tetgen::set_region
Tetgen_set_region_step(index, attribute, max_volume) ==
    LET args == <<index, attribute>>
        volume_constraint == IF IsSome(max_volume) THEN Unwrap(max_volume) ELSE -1
    IN
    IF nregion = None
    THEN SetterFails("set_region", args,
                     "cannot set region because the number of regions is None", <<>>)
    ELSE IF ~AllFit(args) THEN Panic("set_region", args)
    ELSE LET status == tet_set_region(to_i32(index)) IN
         IF handle_status(status) # Ok
         THEN SetterFails("set_region", args, handle_status(status), <<"tet_set_region">>)
         ELSE /\ all_regions_set' = LastIndexWritten(index, Unwrap(nregion))
              /\ last' = [Call("set_region", args, Ok, <<>>, <<"tet_set_region">>)
                             EXCEPT !.passed = <<<<max_volume, volume_constraint>>>>]
              /\ UNCHANGED <<phase, kind, capacities, all_points_set, all_segments_set,
                             all_facets_set, all_holes_set, facet_point_set_count, engine,
                             caller, world>>

Tetgen_set_region ==
    /\ phase = "live" /\ kind = "Tetgen"
    /\ \E args \in RegionInputs, max_volume \in ConstraintInputs :
          Tetgen_set_region_step(args[1], args[2], max_volume)

\* Tetgen::set_hole
Tetgen_set_hole_step(index) ==
    IF nhole = None
    THEN SetterFails("set_hole", <<index>>,
                     "cannot set hole because the number of holes is None", <<>>)
    ELSE IF ~to_i32_ok(index) THEN Panic("set_hole", <<index>>)
    ELSE LET status == tet_set_hole(to_i32(index)) IN
         IF handle_status(status) # Ok
         THEN SetterFails("set_hole", <<index>>, handle_status(status), <<"tet_set_hole">>)
         ELSE /\ all_holes_set' = LastIndexWritten(index, Unwrap(nhole))
              /\ last' = Call("set_hole", <<index>>, Ok, <<>>, <<"tet_set_hole">>)
              /\ UNCHANGED <<phase, kind, capacities, all_points_set, all_segments_set,
                             all_facets_set, all_regions_set, facet_point_set_count, engine,
                             caller, world>>

Tetgen_set_hole ==
    /\ phase = "live" /\ kind = "Tetgen"
    /\ \E index \in HoleInputs : Tetgen_set_hole_step(index)

(***************************************************************************)
(* What the engine produces.  The samples are the meshes of the unit tests *)
(* (one triangle on (0,0), (1,0), (0,1); one tetrahedron on the unit       *)
(* corner), with coordinates in units of 1/2.                              *)
(***************************************************************************)
TriDelaunayOut ==
    [EmptyOut EXCEPT !.npoint = 3, !.ncell = 1, !.cell_npoint = 3,
                     !.points = <<<<0, 0>>, <<2, 0>>, <<0, 2>>>>,
                     !.point_markers = <<1, 1, 1>>,
                     !.cells = <<<<0, 1, 2>>>>,
                     !.cell_attributes = <<0>>]

\* three points give one Voronoi vertex and three rays; four points, here (0,0), (1,0),
\* (0,1), (2,1), give two triangles, two Voronoi vertices, the edge between them and
\* four rays; the second end of a ray is -1 and a direction is stored with every edge
TriVoronoiOut ==
    IF npoint = TRIGEN_MIN_NPOINT
    THEN [TriDelaunayOut EXCEPT !.voronoi_points = <<<<1, 1>>>>,
                                !.voronoi_edges = <<<<0, -1>>, <<0, -1>>, <<0, -1>>>>,
                                !.voronoi_directions = <<<<0, -2>>, <<2, 2>>, <<-2, 0>>>>]
    ELSE [TriDelaunayOut EXCEPT
            !.npoint = 4, !.ncell = 2,
            !.points = <<<<0, 0>>, <<2, 0>>, <<0, 2>>, <<4, 2>>>>,
            !.point_markers = <<1, 1, 1, 1>>,
            !.cells = <<<<0, 1, 2>>, <<1, 3, 2>>>>,
            !.cell_attributes = <<0, 0>>,
            !.voronoi_points = <<<<1, 1>>, <<2, 2>>>>,
            !.voronoi_edges = <<<<0, -1>>, <<0, 1>>, <<0, -1>>, <<1, -1>>, <<1, -1>>>>,
            !.voronoi_directions = <<<<0, -2>>, <<0, 0>>, <<-2, 0>>, <<2, -2>>, <<0, 4>>>>]

TriMeshOut(quadratic) ==
    [EmptyOut EXCEPT
        !.npoint = IF quadratic THEN 6 ELSE 3,
        !.ncell = 1,
        !.cell_npoint = IF quadratic THEN 6 ELSE 3,
        !.nsegment = 3,
        !.points = IF quadratic
                   THEN <<<<0, 0>>, <<2, 0>>, <<0, 2>>, <<1, 0>>, <<1, 1>>, <<0, 1>>>>
                   ELSE <<<<0, 0>>, <<2, 0>>, <<0, 2>>>>,
        !.point_markers = IF quadratic THEN <<-100, -200, -300, -10, -20, -30>>
                          ELSE <<-100, -200, -300>>,
        !.cells = IF quadratic THEN <<<<0, 1, 2, 4, 5, 3>>>> ELSE <<<<0, 1, 2>>>>,
        !.cell_attributes = <<1>>,
        !.segments = <<<<0, 1>>, <<1, 2>>, <<2, 0>>>>,
        !.segment_markers = <<-10, -20, -30>>]

TetDelaunayOut ==
    [EmptyOut EXCEPT !.npoint = 4, !.ncell = 1, !.cell_npoint = 4,
                     !.points = <<<<0, 0, 0>>, <<2, 0, 0>>, <<0, 2, 0>>, <<0, 0, 2>>>>,
                     !.point_markers = <<1, 1, 1, 1>>,
                     !.cells = <<<<0, 1, 2, 3>>>>,
                     !.cell_attributes = <<0>>]

\* a marked face: its point ids (3, or 6 if o2, padded with 0), its marker, its cell
MarkedFace(points, marker, cell) == [points |-> points, marker |-> marker, cell |-> cell]

TetMeshOut(o2) ==
    [EmptyOut EXCEPT
        !.npoint = IF o2 THEN 10 ELSE 4,
        !.ncell = 1,
        !.cell_npoint = IF o2 THEN 10 ELSE 4,
        !.points = IF o2
                   THEN <<<<0, 0, 0>>, <<2, 0, 0>>, <<0, 2, 0>>, <<0, 0, 2>>, <<1, 0, 0>>,
                          <<1, 1, 0>>, <<0, 1, 0>>, <<0, 0, 1>>, <<1, 0, 1>>, <<0, 1, 1>>>>
                   ELSE <<<<0, 0, 0>>, <<2, 0, 0>>, <<0, 2, 0>>, <<0, 0, 2>>>>,
        !.point_markers = IF o2 THEN <<-1, -2, -3, -4, 1, 1, 1, 1, 1, 1>>
                          ELSE <<-1, -2, -3, -4>>,
        !.cells = IF o2 THEN <<<<0, 1, 2, 3, 9, 7, 4, 5, 8, 6>>>> ELSE <<<<0, 1, 2, 3>>>>,
        !.cell_attributes = <<1>>,
        !.marked_faces =
            IF o2
            THEN <<MarkedFace(<<0, 2, 1, 6, 5, 4>>, -10, 0),
                   MarkedFace(<<0, 1, 3, 4, 8, 7>>, -20, 0),
                   MarkedFace(<<0, 3, 2, 7, 9, 6>>, -30, 0),
                   MarkedFace(<<1, 2, 3, 5, 9, 8>>, -40, 0)>>
            ELSE <<MarkedFace(<<0, 2, 1, 0, 0, 0>>, -10, 0),
                   MarkedFace(<<0, 1, 3, 0, 0, 0>>, -20, 0),
                   MarkedFace(<<0, 3, 2, 0, 0, 0>>, -30, 0),
                   MarkedFace(<<1, 2, 3, 0, 0, 0>>, -40, 0)>>]

\* two tetrahedra of two regions that share the face 1 2 3, a facet of the input: the
\* engine holds a record of that face for each of the two cells, with the marker on one side
TetInterfaceOut ==
    [EmptyOut EXCEPT
        !.npoint = 5,
        !.ncell = 2,
        !.cell_npoint = 4,
        !.points = <<<<0, 0, 0>>, <<2, 0, 0>>, <<0, 2, 0>>, <<0, 0, 2>>, <<2, 2, 2>>>>,
        !.point_markers = <<-1, -2, -3, -4, -5>>,
        !.cells = <<<<0, 1, 2, 3>>, <<4, 3, 2, 1>>>>,
        !.cell_attributes = <<1, 2>>,
        !.marked_faces = <<MarkedFace(<<0, 2, 1, 0, 0, 0>>, -10, 0),
                           MarkedFace(<<1, 2, 3, 0, 0, 0>>, -40, 0),
                           MarkedFace(<<3, 2, 1, 0, 0, 0>>, 0, 1)>>]

\* the meshes a run of tet_run_tetrahedralize may leave in the engine
TetMeshOuts(o2) == IF o2 THEN {TetMeshOut(TRUE)} ELSE {TetMeshOut(FALSE), TetInterfaceOut}

\* the statuses a run of the engine may return
TriRunStatuses == {TRITET_SUCCESS, TRITET_ERROR_INITIALIZE_FAILED}
TetRunStatuses == {TRITET_SUCCESS, TETGEN_ERROR_COPLANAR}

\* the engine ran: on success its output is the new mesh, on failure it holds none
EngineRan(status, mesh) == out' = IF status = TRITET_SUCCESS THEN mesh ELSE EmptyOut

(***************************************************************************)
(* Generation.                                                             *)
(***************************************************************************)
\* a generation call returned before reaching the engine
GateFails(op, args, res) ==
    /\ last' = Call(op, args, res, <<>>, <<>>)
    /\ UNCHANGED <<phase, builder, engine, caller, world>>

\* the error of Trigen::generate_delaunay and generate_voronoi for a failed run
Trigen_generate_error(status) ==
    IF status = TRITET_ERROR_NULL_DATA THEN "INTERNAL ERROR: found NULL data"
    ELSE IF status = TRITET_ERROR_NULL_POINT_LIST THEN "INTERNAL ERROR: found NULL point list"
    ELSE "INTERNAL ERROR: some error occurred"

\* Trigen::generate_delaunay
Trigen_generate_delaunay_step(status) ==
    IF ~all_points_set
    THEN GateFails("generate_delaunay", <<>>,
            "cannot generate Delaunay triangulation because not all points are set")
    ELSE /\ EngineRan(status, TriDelaunayOut)
         /\ last' = Call("generate_delaunay", <<>>,
                         IF status # TRITET_SUCCESS THEN Trigen_generate_error(status) ELSE Ok,
                         <<>>, <<"tri_run_delaunay">>)
         /\ UNCHANGED <<phase, builder, ext, in_points, in_segments,
                        caller, in_facets, facet_rewritten, world>>

Trigen_generate_delaunay ==
    /\ phase = "live" /\ kind = "Trigen"
    /\ \E status \in TriRunStatuses : Trigen_generate_delaunay_step(status)

\* Trigen::generate_voronoi
Trigen_generate_voronoi_step(status) ==
    IF ~all_points_set
    THEN GateFails("generate_voronoi", <<>>,
            "cannot generate Voronoi tessellation because not all points are set")
    ELSE /\ EngineRan(status, TriVoronoiOut)
         /\ last' = Call("generate_voronoi", <<>>,
                         IF status # TRITET_SUCCESS THEN Trigen_generate_error(status) ELSE Ok,
                         <<>>, <<"tri_run_voronoi">>)
         /\ UNCHANGED <<phase, builder, ext, in_points, in_segments,
                        caller, in_facets, facet_rewritten, world>>

Trigen_generate_voronoi ==
    /\ phase = "live" /\ kind = "Trigen"
    /\ \E status \in TriRunStatuses : Trigen_generate_voronoi_step(status)

\* the error of Trigen::generate_mesh for a failed run
Trigen_generate_mesh_error(status) ==
    IF status = TRITET_ERROR_NULL_DATA THEN "INTERNAL ERROR: found NULL data"
    ELSE IF status = TRITET_ERROR_NULL_POINT_LIST THEN "INTERNAL ERROR: found NULL point list"
    ELSE IF status = TRITET_ERROR_NULL_SEGMENT_LIST
    THEN "INTERNAL ERROR: list of segments must be defined first"
    ELSE IF status = TRITET_ERROR_STRING_CONCAT
    THEN "INTERNAL ERROR: cannot write string with commands for Triangle"
    ELSE "INTERNAL ERROR: some error occurred"

\* generate_mesh as it would be without the check of all_segments_set
Trigen_generate_mesh_unchecked(quadratic, global_max_area, global_min_angle, status) ==
    LET args == <<IF quadratic THEN 1 ELSE 0>>
        max_area == IF IsSome(global_max_area) THEN Unwrap(global_max_area) ELSE 0
        min_angle == IF IsSome(global_min_angle) THEN Unwrap(global_min_angle) ELSE 0
    IN
    IF ~all_points_set
    THEN GateFails("generate_mesh", args,
            "cannot generate mesh of triangles because not all points are set")
    ELSE /\ EngineRan(status, TriMeshOut(quadratic))
         /\ last' = [Call("generate_mesh", args,
                          IF status # TRITET_SUCCESS THEN Trigen_generate_mesh_error(status)
                          ELSE Ok,
                          <<>>, <<"tri_run_triangulate">>)
                        EXCEPT !.passed = <<<<global_max_area, max_area>>,
                                           <<global_min_angle, min_angle>>>>]
         /\ UNCHANGED <<phase, builder, ext, in_points, in_segments,
                        caller, in_facets, facet_rewritten, world>>

\* generate_mesh as it would be if it refused a builder whose declared regions or holes
\* are not all written
Trigen_generate_mesh_regions_checked(quadratic, global_max_area, global_min_angle, status) ==
    LET args == <<IF quadratic THEN 1 ELSE 0>>
        max_area == IF IsSome(global_max_area) THEN Unwrap(global_max_area) ELSE 0
        min_angle == IF IsSome(global_min_angle) THEN Unwrap(global_min_angle) ELSE 0
    IN
    IF ~all_points_set
    THEN GateFails("generate_mesh", args,
            "cannot generate mesh of triangles because not all points are set")
    ELSE IF ~all_segments_set
    THEN GateFails("generate_mesh", args,
            "cannot generate mesh of triangles because not all segments are set")
    ELSE IF (IsSome(nregion) /\ ~all_regions_set) \/ (IsSome(nhole) /\ ~all_holes_set)
    THEN GateFails("generate_mesh", args,
            "cannot generate mesh of triangles because not all regions and holes are set")
    ELSE /\ EngineRan(status, TriMeshOut(quadratic))
         /\ last' = [Call("generate_mesh", args,
                          IF status # TRITET_SUCCESS THEN Trigen_generate_mesh_error(status)
                          ELSE Ok,
                          <<>>, <<"tri_run_triangulate">>)
                        EXCEPT !.passed = <<<<global_max_area, max_area>>,
                                           <<global_min_angle, min_angle>>>>]
         /\ UNCHANGED <<phase, builder, ext, in_points, in_segments,
                        caller, in_facets, facet_rewritten, world>>

\* Trigen::generate_mesh
Trigen_generate_mesh_step(quadratic, global_max_area, global_min_angle, status) ==
    LET args == <<IF quadratic THEN 1 ELSE 0>>
        max_area == IF IsSome(global_max_area) THEN Unwrap(global_max_area) ELSE 0
        min_angle == IF IsSome(global_min_angle) THEN Unwrap(global_min_angle) ELSE 0
    IN
    IF ~all_points_set
    THEN GateFails("generate_mesh", args,
            "cannot generate mesh of triangles because not all points are set")
    ELSE IF ~all_segments_set
    THEN GateFails("generate_mesh", args,
            "cannot generate mesh of triangles because not all segments are set")
    ELSE /\ EngineRan(status, TriMeshOut(quadratic))
         /\ last' = [Call("generate_mesh", args,
                          IF status # TRITET_SUCCESS THEN Trigen_generate_mesh_error(status)
                          ELSE Ok,
                          <<>>, <<"tri_run_triangulate">>)
                        EXCEPT !.passed = <<<<global_max_area, max_area>>,
                                           <<global_min_angle, min_angle>>>>]
         /\ UNCHANGED <<phase, builder, ext, in_points, in_segments,
                        caller, in_facets, facet_rewritten, world>>

Trigen_generate_mesh ==
    /\ phase = "live" /\ kind = "Trigen"
    /\ \E quadratic \in OrderInputs, global_max_area \in ConstraintInputs,
          global_min_angle \in ConstraintInputs, status \in TriRunStatuses :
          Trigen_generate_mesh_step(quadratic, global_max_area, global_min_angle, status)

\* generate_delaunay as it would be if it ran the engine a second time after a failure
\* and dropped the point flag
Tetgen_generate_delaunay_retrying(status) ==
    IF ~all_points_set
    THEN GateFails("generate_delaunay", <<>>,
            "cannot generate Delaunay tetrahedralization because not all points are set")
    ELSE /\ EngineRan(status, TetDelaunayOut)
         /\ last' = Call("generate_delaunay", <<>>, handle_status(status), <<>>,
                         IF status = TRITET_SUCCESS THEN <<"tet_run_delaunay">>
                         ELSE <<"tet_run_delaunay", "tet_run_delaunay">>)
         /\ all_points_set' = (status = TRITET_SUCCESS)
         /\ UNCHANGED <<phase, kind, capacities, all_segments_set, all_facets_set,
                        all_regions_set, all_holes_set, facet_point_set_count, ext,
                        in_points, in_segments, caller, in_facets, facet_rewritten, world>>

\* Tetgen::generate_delaunay
Tetgen_generate_delaunay_step(status) ==
    IF ~all_points_set
    THEN GateFails("generate_delaunay", <<>>,
            "cannot generate Delaunay tetrahedralization because not all points are set")
    ELSE /\ EngineRan(status, TetDelaunayOut)
         /\ last' = Call("generate_delaunay", <<>>, handle_status(status), <<>>,
                         <<"tet_run_delaunay">>)
         /\ UNCHANGED <<phase, builder, ext, in_points, in_segments,
                        caller, in_facets, facet_rewritten, world>>

Tetgen_generate_delaunay ==
    /\ phase = "live" /\ kind = "Tetgen"
    /\ \E status \in TetRunStatuses : Tetgen_generate_delaunay_step(status)

\* generate_mesh as it would be if it passed -1.0 for a constraint that is None
Tetgen_generate_mesh_negative(o2, global_max_volume, global_min_angle, status) ==
    LET args == <<IF o2 THEN 1 ELSE 0>>
        max_volume == IF IsSome(global_max_volume) THEN Unwrap(global_max_volume) ELSE -1
        min_angle == IF IsSome(global_min_angle) THEN Unwrap(global_min_angle) ELSE -1
    IN
    IF ~all_points_set
    THEN GateFails("generate_mesh", args,
            "cannot generate mesh of tetrahedra because not all points are set")
    ELSE IF ~all_facets_set
    THEN GateFails("generate_mesh", args,
            "cannot generate mesh of tetrahedra because not all facets are set")
    ELSE /\ \E mesh \in TetMeshOuts(o2) : EngineRan(status, mesh)
         /\ last' = [Call("generate_mesh", args, handle_status(status), <<>>,
                          <<"tet_run_tetrahedralize">>)
                        EXCEPT !.passed = <<<<global_max_volume, max_volume>>,
                                           <<global_min_angle, min_angle>>>>]
         /\ UNCHANGED <<phase, builder, ext, in_points, in_segments,
                        caller, in_facets, facet_rewritten, world>>

\* Tetgen::generate_mesh
Tetgen_generate_mesh_step(o2, global_max_volume, global_min_angle, status) ==
    LET args == <<IF o2 THEN 1 ELSE 0>>
        max_volume == IF IsSome(global_max_volume) THEN Unwrap(global_max_volume) ELSE 0
        min_angle == IF IsSome(global_min_angle) THEN Unwrap(global_min_angle) ELSE 0
    IN
    IF ~all_points_set
    THEN GateFails("generate_mesh", args,
            "cannot generate mesh of tetrahedra because not all points are set")
    ELSE IF ~all_facets_set
    THEN GateFails("generate_mesh", args,
            "cannot generate mesh of tetrahedra because not all facets are set")
    ELSE /\ \E mesh \in TetMeshOuts(o2) : EngineRan(status, mesh)
         /\ last' = [Call("generate_mesh", args, handle_status(status), <<>>,
                          <<"tet_run_tetrahedralize">>)
                        EXCEPT !.passed = <<<<global_max_volume, max_volume>>,
                                           <<global_min_angle, min_angle>>>>]
         /\ UNCHANGED <<phase, builder, ext, in_points, in_segments,
                        caller, in_facets, facet_rewritten, world>>

Tetgen_generate_mesh ==
    /\ phase = "live" /\ kind = "Tetgen"
    /\ \E o2 \in OrderInputs, global_max_volume \in ConstraintInputs,
          global_min_angle \in ConstraintInputs, status \in TetRunStatuses :
          Tetgen_generate_mesh_step(o2, global_max_volume, global_min_angle, status)

(***************************************************************************)
(* The engine's accessors (the C interface).  An index outside the output  *)
(* arrays yields 0.                                                        *)
(***************************************************************************)
\* entry k (from 0) of list, or 0 when k is outside it
At(list, k) == IF k >= 0 /\ k < Len(list) THEN list[k + 1] ELSE 0
\* component d (from 0) of entry k of a list of tuples, or 0 when outside
At2(list, k, d) == IF k >= 0 /\ k < Len(list) THEN At(list[k + 1], d) ELSE 0

tri_out_npoint == out.npoint
tri_out_nsegment == out.nsegment
tri_out_ncell == out.ncell
tri_out_cell_npoint == out.cell_npoint
tri_out_point(index, dim) == At2(out.points, index, dim)
tri_out_point_marker(index) == At(out.point_markers, index)
tri_out_segment_point(index, side) == At2(out.segments, index, side)
tri_out_segment_marker(index) == At(out.segment_markers, index)
tri_out_cell_point(index, corner) == At2(out.cells, index, corner)
tri_out_cell_attribute(index) == At(out.cell_attributes, index)
tri_out_voronoi_npoint == Len(out.voronoi_points)
tri_out_voronoi_point(index, dim) == At2(out.voronoi_points, index, dim)
tri_out_voronoi_nedge == Len(out.voronoi_edges)
tri_out_voronoi_edge_point(index, side) == At2(out.voronoi_edges, index, side)
tri_out_voronoi_edge_point_b_direction(index, dim) == At2(out.voronoi_directions, index, dim)

tet_out_npoint == out.npoint
tet_out_ncell == out.ncell
tet_out_cell_npoint == out.cell_npoint
tet_out_point(index, dim) == At2(out.points, index, dim)
tet_out_point_marker(index) == At(out.point_markers, index)
tet_out_cell_point(index, corner) == At2(out.cells, index, corner)
tet_out_cell_attribute(index) == At(out.cell_attributes, index)
tet_out_n_marked_face == Len(out.marked_faces)
\* marker, cell and the six point ids of a marked face; the caller's buffer holds zeros
tet_out_marked_face(index) ==
    IF index >= 0 /\ index < Len(out.marked_faces)
    THEN <<out.marked_faces[index + 1].marker, out.marked_faces[index + 1].cell>>
         \o out.marked_faces[index + 1].points
    ELSE <<0, 0, 0, 0, 0, 0, 0, 0>>

(***************************************************************************)
(* Accessors: what each returns.                                           *)
(***************************************************************************)
\* a returned value
Value(v) == [res |-> "Value", val |-> <<v>>]
\* the accessor panicked
Panicked == [res |-> PANIC, val |-> <<>>]

Trigen_out_npoint == Value(as_usize(tri_out_npoint))
Trigen_out_nsegment == Value(as_usize(tri_out_nsegment))
Trigen_out_ncell == Value(as_usize(tri_out_ncell))
Trigen_out_cell_npoint == Value(as_usize(tri_out_cell_npoint))
Trigen_out_voronoi_npoint == Value(as_usize(tri_out_voronoi_npoint))
Trigen_out_voronoi_nedge == Value(as_usize(tri_out_voronoi_nedge))

Trigen_out_point(index, dim) ==
    IF ~AllFit(<<index, dim>>) THEN Panicked
    ELSE Value(tri_out_point(to_i32(index), to_i32(dim)))

Trigen_out_point_marker(index) ==
    IF ~to_i32_ok(index) THEN Panicked ELSE Value(tri_out_point_marker(to_i32(index)))

Trigen_out_segment_point(index, side) ==
    IF ~AllFit(<<index, side>>) THEN Panicked
    ELSE Value(as_usize(tri_out_segment_point(to_i32(index), to_i32(side))))

Trigen_out_segment_marker(index) ==
    IF ~to_i32_ok(index) THEN Panicked ELSE Value(tri_out_segment_marker(to_i32(index)))

\* constants::TRITET_TO_TRIANGLE[m] does not panic
TriangleCornerOk(m) == m # USIZE_OVER /\ m < Len(TRITET_TO_TRIANGLE)

\* out_cell_point as it would be if it passed m to the engine untranslated
Trigen_out_cell_point_untranslated(index, m) ==
    IF ~TriangleCornerOk(m) THEN Panicked
    ELSE IF ~to_i32_ok(index) THEN Panicked
    ELSE Value(as_usize(tri_out_cell_point(to_i32(index), to_i32(m))))

Trigen_out_cell_point(index, m) ==
    IF ~TriangleCornerOk(m) THEN Panicked
    ELSE IF ~to_i32_ok(index) THEN Panicked
    ELSE Value(as_usize(tri_out_cell_point(to_i32(index), to_i32(TRITET_TO_TRIANGLE[m + 1]))))

Trigen_out_cell_attribute(index) ==
    IF ~to_i32_ok(index) THEN Panicked
    ELSE Value(as_usize(tri_out_cell_attribute(to_i32(index))))

Trigen_out_voronoi_point(index, dim) ==
    IF ~AllFit(<<index, dim>>) THEN Panicked
    ELSE Value(tri_out_voronoi_point(to_i32(index), to_i32(dim)))

Trigen_out_voronoi_edge_point_a(index) ==
    IF ~to_i32_ok(index) THEN Panicked
    ELSE Value(as_usize(tri_out_voronoi_edge_point(to_i32(index), 0)))

\* out_voronoi_edge_point_b as it would be if it never tested the second end for -1
Trigen_out_voronoi_edge_point_b_unclassified(index) ==
    IF ~to_i32_ok(index) THEN Panicked
    ELSE [res |-> "Index", val |-> <<as_usize(tri_out_voronoi_edge_point(to_i32(index), 1))>>]

\* VoronoiEdgePoint::Index(id) or VoronoiEdgePoint::Direction(x, y)
Trigen_out_voronoi_edge_point_b(index) ==
    IF ~to_i32_ok(index) THEN Panicked
    ELSE LET index_i32 == to_i32(index)
             id == tri_out_voronoi_edge_point(index_i32, 1)
         IN IF id = -1
            THEN [res |-> "Direction",
                  val |-> <<tri_out_voronoi_edge_point_b_direction(index_i32, 0),
                            tri_out_voronoi_edge_point_b_direction(index_i32, 1)>>]
            ELSE [res |-> "Index", val |-> <<as_usize(id)>>]

Tetgen_out_npoint == Value(as_usize(tet_out_npoint))
Tetgen_out_ncell == Value(as_usize(tet_out_ncell))
Tetgen_out_cell_npoint == Value(as_usize(tet_out_cell_npoint))
Tetgen_out_n_marked_face == Value(as_usize(tet_out_n_marked_face))

Tetgen_out_point(index, dim) ==
    IF ~AllFit(<<index, dim>>) THEN Panicked
    ELSE Value(tet_out_point(to_i32(index), to_i32(dim)))

Tetgen_out_point_marker(index) ==
    IF ~to_i32_ok(index) THEN Panicked ELSE Value(tet_out_point_marker(to_i32(index)))

\* TRITET_TO_TETGEN[m] does not panic
TetgenCornerOk(m) == m # USIZE_OVER /\ m < Len(TRITET_TO_TETGEN)

Tetgen_out_cell_point(index, m) ==
    IF ~TetgenCornerOk(m) THEN Panicked
    ELSE IF ~to_i32_ok(index) THEN Panicked
    ELSE Value(as_usize(tet_out_cell_point(to_i32(index), to_i32(TRITET_TO_TETGEN[m + 1]))))

Tetgen_out_cell_attribute(index) ==
    IF ~to_i32_ok(index) THEN Panicked
    ELSE Value(as_usize(tet_out_cell_attribute(to_i32(index))))

\* (marker, cell) followed by the six entries of the caller's points buffer
Tetgen_out_marked_face(index) ==
    IF ~to_i32_ok(index) THEN Panicked
    ELSE LET face == tet_out_marked_face(to_i32(index)) IN
         [res |-> "Value",
          val |-> <<face[1], as_usize(face[2])>> \o SubSeq(face, 3, 8)]

\* the result of Trigen's accessor op on args
Trigen_accessor(op, args) ==
    CASE op = "out_npoint" -> Trigen_out_npoint
      [] op = "out_nsegment" -> Trigen_out_nsegment
      [] op = "out_ncell" -> Trigen_out_ncell
      [] op = "out_cell_npoint" -> Trigen_out_cell_npoint
      [] op = "out_voronoi_npoint" -> Trigen_out_voronoi_npoint
      [] op = "out_voronoi_nedge" -> Trigen_out_voronoi_nedge
      [] op = "out_point" -> Trigen_out_point(args[1], args[2])
      [] op = "out_point_marker" -> Trigen_out_point_marker(args[1])
      [] op = "out_segment_point" -> Trigen_out_segment_point(args[1], args[2])
      [] op = "out_segment_marker" -> Trigen_out_segment_marker(args[1])
      [] op = "out_cell_point" -> Trigen_out_cell_point(args[1], args[2])
      [] op = "out_cell_attribute" -> Trigen_out_cell_attribute(args[1])
      [] op = "out_voronoi_point" -> Trigen_out_voronoi_point(args[1], args[2])
      [] op = "out_voronoi_edge_point_a" -> Trigen_out_voronoi_edge_point_a(args[1])
      [] op = "out_voronoi_edge_point_b" -> Trigen_out_voronoi_edge_point_b(args[1])

\* the result of Tetgen's accessor op on args
Tetgen_accessor(op, args) ==
    CASE op = "out_npoint" -> Tetgen_out_npoint
      [] op = "out_ncell" -> Tetgen_out_ncell
      [] op = "out_cell_npoint" -> Tetgen_out_cell_npoint
      [] op = "out_n_marked_face" -> Tetgen_out_n_marked_face
      [] op = "out_point" -> Tetgen_out_point(args[1], args[2])
      [] op = "out_point_marker" -> Tetgen_out_point_marker(args[1])
      [] op = "out_cell_point" -> Tetgen_out_cell_point(args[1], args[2])
      [] op = "out_cell_attribute" -> Tetgen_out_cell_attribute(args[1])
      [] op = "out_marked_face" -> Tetgen_out_marked_face(args[1])

\* the accessors by the shape of their arguments
TrigenCountAccessors ==
    {"out_npoint", "out_nsegment", "out_ncell", "out_cell_npoint", "out_voronoi_npoint",
     "out_voronoi_nedge"}
TrigenIndexAccessors ==
    {"out_point_marker", "out_segment_marker", "out_cell_attribute",
     "out_voronoi_edge_point_a", "out_voronoi_edge_point_b"}
TrigenPairAccessors == {"out_point", "out_segment_point", "out_voronoi_point"}
TetgenCountAccessors == {"out_npoint", "out_ncell", "out_cell_npoint", "out_n_marked_face"}
TetgenIndexAccessors == {"out_point_marker", "out_cell_attribute", "out_marked_face"}
TetgenPairAccessors == {"out_point"}

\* the accessors the caller calls, and the arguments it passes
Called(names) == IF caller = "read" THEN names ELSE {}
ReadIndexInputs == {0, 1, MaxOutIndex, USIZE_OVER}
ReadPairInputs ==
    {<<index, dim>> : index \in {0, MaxOutIndex, USIZE_OVER}, dim \in {0, 2, 3, USIZE_OVER}}
CellPointInputs ==
    {<<index, m>> : index \in {0, MaxOutIndex}, m \in (0..MaxLocalNode) \cup {USIZE_OVER}}
    \cup {<<USIZE_OVER, 0>>}

\* an accessor call as it would be if it took &mut self and cleared the point flag
Read_clearing(op, args, result) ==
    IF result.res = PANIC THEN Panic(op, args)
    ELSE /\ last' = Call(op, args, result.res, result.val, <<>>)
         /\ all_points_set' = FALSE
         /\ UNCHANGED <<phase, kind, capacities, all_segments_set, all_facets_set,
                        all_regions_set, all_holes_set, facet_point_set_count, engine,
                        caller, world>>

\* an accessor call: it takes &self and returns a value, or panics
Read(op, args, result) ==
    IF result.res = PANIC THEN Panic(op, args)
    ELSE /\ last' = Call(op, args, result.res, result.val, <<>>)
         /\ UNCHANGED <<phase, builder, engine, caller, world>>

Trigen_out_count ==
    /\ phase = "live" /\ kind = "Trigen"
    /\ \E op \in Called(TrigenCountAccessors) : Read(op, <<>>, Trigen_accessor(op, <<>>))

Trigen_out_indexed ==
    /\ phase = "live" /\ kind = "Trigen"
    /\ \E op \in Called(TrigenIndexAccessors), index \in ReadIndexInputs :
          Read(op, <<index>>, Trigen_accessor(op, <<index>>))

Trigen_out_paired ==
    /\ phase = "live" /\ kind = "Trigen"
    /\ \E op \in Called(TrigenPairAccessors), args \in ReadPairInputs :
          Read(op, args, Trigen_accessor(op, args))

Trigen_out_cell_point_call ==
    /\ phase = "live" /\ kind = "Trigen"
    /\ \E op \in Called({"out_cell_point"}), args \in CellPointInputs :
          Read(op, args, Trigen_accessor(op, args))

Tetgen_out_count ==
    /\ phase = "live" /\ kind = "Tetgen"
    /\ \E op \in Called(TetgenCountAccessors) : Read(op, <<>>, Tetgen_accessor(op, <<>>))

Tetgen_out_indexed ==
    /\ phase = "live" /\ kind = "Tetgen"
    /\ \E op \in Called(TetgenIndexAccessors), index \in ReadIndexInputs :
          Read(op, <<index>>, Tetgen_accessor(op, <<index>>))

Tetgen_out_paired ==
    /\ phase = "live" /\ kind = "Tetgen"
    /\ \E op \in Called(TetgenPairAccessors), args \in ReadPairInputs :
          Read(op, args, Tetgen_accessor(op, args))

Tetgen_out_cell_point_call ==
    /\ phase = "live" /\ kind = "Tetgen"
    /\ \E op \in Called({"out_cell_point"}), args \in CellPointInputs :
          Read(op, args, Tetgen_accessor(op, args))

(***************************************************************************)
(* draw_voronoi: the edges of the Voronoi diagram are added to a plot; an  *)
(* infinite ray is cut at the box around the points drawn so far.  The f64 *)
(* values are exact fractions <<n, d>> with d > 0.                         *)
(***************************************************************************)
FLess(a, b) == a[1] * b[2] < b[1] * a[2]
FMin(a, b) == IF FLess(b, a) THEN b ELSE a
FMax(a, b) == IF FLess(a, b) THEN b ELSE a

\* mx and my: (max - xa) / dx for dx > 0, (min - xa) / dx for dx < 0, and 0.0 for dx = 0
ClipAxis(d, lo, hi, x) ==
    IF d > 0 THEN <<hi[1] - x * hi[2], hi[2] * d>>
    ELSE IF d < 0 THEN <<x * lo[2] - lo[1], lo[2] * (0 - d)>>
    ELSE <<0, 1>>

\* xa + m * dx
Along(x, m, d) == <<x * m[2] + m[1] * d, m[2]>>

\* min and max over the output points and the Voronoi vertices
DrawBox ==
    LET xy(dim) ==
            {Trigen_out_point(p, dim).val[1] : p \in 0..(Trigen_out_npoint.val[1] - 1)}
            \cup {Trigen_out_voronoi_point(q, dim).val[1] :
                     q \in 0..(Trigen_out_voronoi_npoint.val[1] - 1)}
        least(dim) == CHOOSE v \in xy(dim) : \A w \in xy(dim) : v <= w
        most(dim) == CHOOSE v \in xy(dim) : \A w \in xy(dim) : v >= w
    IN [min |-> <<<<least(0), 1>>, <<least(1), 1>>>>,
        max |-> <<<<most(0), 1>>, <<most(1), 1>>>>]

\* the loop over the edges from edge e on: the segments added to the canvas and the box
RECURSIVE DrawEdges(_, _, _)
DrawEdges(e, box, canvas) ==
    IF e >= Trigen_out_voronoi_nedge.val[1] THEN [canvas |-> canvas, box |-> box]
    ELSE LET a == Trigen_out_voronoi_edge_point_a(e).val[1]
             xa == Trigen_out_voronoi_point(a, 0).val[1]
             ya == Trigen_out_voronoi_point(a, 1).val[1]
             b_or_direction == Trigen_out_voronoi_edge_point_b(e)
         IN IF b_or_direction.res = "Index"
            THEN LET b == b_or_direction.val[1]
                     xb == Trigen_out_voronoi_point(b, 0).val[1]
                     yb == Trigen_out_voronoi_point(b, 1).val[1]
                 IN DrawEdges(e + 1, box,
                              Append(canvas, <<<<xa, 1>>, <<ya, 1>>, <<xb, 1>>, <<yb, 1>>>>))
            ELSE LET dx == b_or_direction.val[1]
                     dy == b_or_direction.val[2]
                     mx == ClipAxis(dx, box.min[1], box.max[1], xa)
                     my == ClipAxis(dy, box.min[2], box.max[2], ya)
                     m == IF FLess(mx, my) THEN mx ELSE my
                     xb == Along(xa, m, dx)
                     yb == Along(ya, m, dy)
                 IN IF FLess(<<0, 1>>, m)
                    THEN DrawEdges(e + 1,
                                   [min |-> <<FMin(box.min[1], xb), FMin(box.min[2], yb)>>,
                                    max |-> <<FMax(box.max[1], xb), FMax(box.max[2], yb)>>],
                                   Append(canvas, <<<<xa, 1>>, <<ya, 1>>, xb, yb>>))
                    ELSE DrawEdges(e + 1, box, canvas)

\* draw_voronoi(&self, plot): what the plot receives is recorded as the value of the call
Trigen_draw_voronoi ==
    /\ phase = "live" /\ kind = "Trigen" /\ caller = "read"
    /\ last' = Call("draw_voronoi", <<>>, Ok,
                    IF Trigen_out_voronoi_npoint.val[1] < 1
                       \/ Trigen_out_voronoi_nedge.val[1] < 1
                    THEN <<>>
                    ELSE <<DrawEdges(0, DrawBox, <<>>)>>,
                    <<>>)
    /\ UNCHANGED <<phase, builder, engine, caller, world>>

(***************************************************************************)
(* The document of write_vtu: the numbers written into the buffer, block   *)
(* by block, in the order of the loops that write them.                    *)
(***************************************************************************)
\* the cell type codes of the document
VTK_TRIANGLE == 5
VTK_QUADRATIC_TRIANGLE == 22
VTK_TETRA == 10
VTK_QUADRATIC_TETRA == 24

\* a marked face is written with its three corners, whatever the order of the mesh
FACE_NNODE == 3

\* for index in 0..ncell { for m in 0..nnode { out_cell_point(index, m) } }
CellBlock(trigen, ncell, nnode) ==
    [i \in 1..(ncell * nnode) |->
        IF trigen THEN Trigen_out_cell_point((i - 1) \div nnode, (i - 1) % nnode).val[1]
        ELSE Tetgen_out_cell_point((i - 1) \div nnode, (i - 1) % nnode).val[1]]

\* offset += nnode, written once per cell
OffsetBlock(ncell, nnode, start) == [k \in 1..ncell |-> start + k * nnode]

\* the document of Trigen::write_vtu
Trigen_buffer ==
    LET ntriangle == Trigen_out_ncell.val[1]
        n_point == Trigen_out_npoint.val[1]
        nnode == Trigen_out_cell_npoint.val[1]
        vtk_type == IF nnode = 3 THEN VTK_TRIANGLE ELSE VTK_QUADRATIC_TRIANGLE
    IN [NumberOfPoints |-> n_point,
        NumberOfCells |-> ntriangle,
        Points |-> [i \in 1..n_point |->
                       <<Trigen_out_point(i - 1, 0).val[1],
                         Trigen_out_point(i - 1, 1).val[1], 0>>],
        connectivity |-> CellBlock(TRUE, ntriangle, nnode),
        offsets |-> OffsetBlock(ntriangle, nnode, 0),
        types |-> [k \in 1..ntriangle |-> vtk_type],
        marker |-> <<>>,
        attribute |-> <<>>]

\* out_marked_face(index) as write_vtu calls it: (a, b, c, marker, cell), the three
\* corners of the face, its marker and its cell
Tetgen_out_marked_face_corners(index) ==
    LET face == Tetgen_out_marked_face(index).val
    IN <<face[3], face[4], face[5], face[1], face[2]>>

\* the corners of the marked faces, face after face
Tetgen_buffer_faces(n_marked_faces) ==
    [i \in 1..(n_marked_faces * FACE_NNODE) |->
        Tetgen_out_marked_face_corners((i - 1) \div FACE_NNODE)[((i - 1) % FACE_NNODE) + 1]]

\* the offsets block as it would be if a marked face advanced the offset by nnode
Tetgen_buffer_offsets_by_nnode(ntet, nnode, n_marked_faces) ==
    OffsetBlock(ntet, nnode, 0) \o OffsetBlock(n_marked_faces, nnode, ntet * nnode)

\* the offsets block: nnode per tetrahedron, then 3 per marked face
Tetgen_buffer_offsets(ntet, nnode, n_marked_faces) ==
    OffsetBlock(ntet, nnode, 0) \o OffsetBlock(n_marked_faces, FACE_NNODE, ntet * nnode)

\* the attribute block as it would be if the markers of the faces came first
Tetgen_buffer_attribute_faces_first(ntet, n_marked_faces) ==
    [k \in 1..n_marked_faces |-> Tetgen_out_marked_face_corners(k - 1)[4]]
    \o [k \in 1..ntet |-> Tetgen_out_cell_attribute(k - 1).val[1]]

\* the attribute block: the attribute of each tetrahedron, then the marker of each face
Tetgen_buffer_attribute(ntet, n_marked_faces) ==
    [k \in 1..ntet |-> Tetgen_out_cell_attribute(k - 1).val[1]]
    \o [k \in 1..n_marked_faces |-> Tetgen_out_marked_face_corners(k - 1)[4]]

\* the document of Tetgen::write_vtu
Tetgen_buffer ==
    LET ntet == Tetgen_out_ncell.val[1]
        n_marked_faces == Tetgen_out_n_marked_face.val[1]
        ncell == ntet + n_marked_faces
        n_point == Tetgen_out_npoint.val[1]
        nnode == Tetgen_out_cell_npoint.val[1]
        vtk_type == IF nnode = 4 THEN VTK_TETRA ELSE VTK_QUADRATIC_TETRA
    IN [NumberOfPoints |-> n_point,
        NumberOfCells |-> ncell,
        Points |-> [i \in 1..n_point |->
                       <<Tetgen_out_point(i - 1, 0).val[1],
                         Tetgen_out_point(i - 1, 1).val[1],
                         Tetgen_out_point(i - 1, 2).val[1]>>],
        connectivity |-> CellBlock(FALSE, ntet, nnode)
                         \o Tetgen_buffer_faces(n_marked_faces),
        offsets |-> Tetgen_buffer_offsets(ntet, nnode, n_marked_faces),
        types |-> [k \in 1..ntet |-> vtk_type]
                  \o [k \in 1..n_marked_faces |-> VTK_TRIANGLE],
        marker |-> [i \in 1..n_point |-> Tetgen_out_point_marker(i - 1).val[1]],
        attribute |-> Tetgen_buffer_attribute(ntet, n_marked_faces)]

(***************************************************************************)
(* write_vtu: the mesh is exported to a file.  Creating the directory,     *)
(* creating the file, writing and syncing it may each fail.                *)
(***************************************************************************)
IoOutcomes ==
    {Ok, "cannot create directory", "cannot create file", "cannot write file",
     "cannot sync file"}

\* the path after create_dir_all, File::create, write_all and sync_all, the first failing
\* call ending the sequence
FileAfter(io) ==
    CASE io = "cannot create directory" -> fs
      [] io = "cannot create file" -> [fs EXCEPT !.dir = TRUE]
      [] io = "cannot write file" -> [dir |-> TRUE, file |-> "partial"]
      [] io = "cannot sync file" -> [dir |-> TRUE, file |-> "unsynced"]
      [] OTHER -> [dir |-> TRUE, file |-> "written"]

\* write_vtu as it would be if it created the directory before counting the cells
write_vtu_eager(message, ncell, buffer, io) ==
    /\ IF ncell.val[1] = 0
       THEN /\ last' = Call("write_vtu", <<>>, message, <<>>, <<>>)
            /\ fs' = [fs EXCEPT !.dir = TRUE]
       ELSE /\ last' = Call("write_vtu", <<>>, io, <<buffer>>, <<>>)
            /\ fs' = FileAfter(io)
    /\ UNCHANGED <<phase, builder, engine, caller, ndrop, threads>>

\* write_vtu(&self, full_path): nothing is touched when there is no cell; otherwise the
\* buffer is built, then written to the path (last.val holds the buffer)
write_vtu(message, ncell, buffer, io) ==
    /\ IF ncell.val[1] = 0
       THEN /\ last' = Call("write_vtu", <<>>, message, <<>>, <<>>)
            /\ UNCHANGED fs
       ELSE /\ last' = Call("write_vtu", <<>>, io, <<buffer>>, <<>>)
            /\ fs' = FileAfter(io)
    /\ UNCHANGED <<phase, builder, engine, caller, ndrop, threads>>

Trigen_write_vtu ==
    /\ phase = "live" /\ kind = "Trigen" /\ caller = "read"
    /\ \E io \in IoOutcomes :
          write_vtu("there are no triangles to write", Trigen_out_ncell, Trigen_buffer, io)

Tetgen_write_vtu ==
    /\ phase = "live" /\ kind = "Tetgen" /\ caller = "read"
    /\ \E io \in IoOutcomes :
          write_vtu("there are no tetrahedra to write", Tetgen_out_ncell, Tetgen_buffer, io)

(***************************************************************************)
(* Drop: the builder goes out of scope, at the end of the program or while *)
(* a panic unwinds the stack, and the engine's handle is freed.            *)
(***************************************************************************)
\* Drop as it would be if the builder stayed in use after its handle was freed
Drop_early ==
    /\ phase \in {"live", "panicked"}
    /\ ext = "live"
    /\ ext' = "released"
    /\ ndrop' = ndrop + 1
    /\ last' = Call("drop", <<>>, Ok, <<>>,
                    <<IF kind = "Trigen" THEN "tri_drop_trigen" ELSE "tet_drop_tetgen">>)
    /\ UNCHANGED <<phase, builder, in_points, in_segments, out, caller, in_facets,
                   facet_rewritten, fs, threads>>

Drop ==
    /\ phase \in {"live", "panicked"}
    /\ ext = "live"
    /\ phase' = "dropped"
    /\ ext' = "released"
    /\ ndrop' = ndrop + 1
    /\ last' = Call("drop", <<>>, Ok, <<>>,
                    <<IF kind = "Trigen" THEN "tri_drop_trigen" ELSE "tet_drop_tetgen">>)
    /\ UNCHANGED <<builder, in_points, in_segments, out, caller, in_facets, facet_rewritten,
                   fs, threads>>

Next ==
    \/ TrigenNew
    \/ TetgenNew
    \/ Trigen_set_point
    \/ Trigen_set_segment
    \/ Trigen_set_region
    \/ Trigen_set_hole
    \/ Trigen_generate_delaunay
    \/ Trigen_generate_voronoi
    \/ Trigen_generate_mesh
    \/ Trigen_out_count
    \/ Trigen_out_indexed
    \/ Trigen_out_paired
    \/ Trigen_out_cell_point_call
    \/ Trigen_draw_voronoi
    \/ Trigen_write_vtu
    \/ Tetgen_set_point
    \/ Tetgen_set_facet_point
    \/ Tetgen_set_facet_marker
    \/ Tetgen_set_region
    \/ Tetgen_set_hole
    \/ Tetgen_generate_delaunay
    \/ Tetgen_generate_mesh
    \/ Tetgen_out_count
    \/ Tetgen_out_indexed
    \/ Tetgen_out_paired
    \/ Tetgen_out_cell_point_call
    \/ Tetgen_write_vtu
    \/ Drop

Spec == Init /\ [][Next]_vars

(***************************************************************************)
(* Threads.  Each spawned thread constructs, fills, runs and drops its own *)
(* builder.  A method enters the engine inside an unsafe block and takes   *)
(* no lock before it: ACCESS_C_CODE is declared and never acquired.        *)
(***************************************************************************)
\* a thread enters the engine function of its next call
Thread_call ==
    \E t \in Threads :
        /\ threads[t].pc <= Len(ThreadProgram)
        /\ ~threads[t].inside
        /\ threads' = [threads EXCEPT ![t].inside = TRUE]
        /\ UNCHANGED <<phase, builder, engine, last, caller, ndrop, fs>>

\* the engine function returns to the thread, which goes on to its next call
Thread_return ==
    \E t \in Threads :
        /\ threads[t].inside
        /\ threads' = [threads EXCEPT ![t] = [pc |-> @.pc + 1, inside |-> FALSE]]
        /\ UNCHANGED <<phase, builder, engine, last, caller, ndrop, fs>>

ThreadsNext ==
    \/ Thread_call
    \/ Thread_return

ThreadsSpec == Init /\ [][ThreadsNext]_vars

(***************************************************************************)
(* Properties.                                                             *)
(***************************************************************************)
\* the accessors that take an index, and all accessors
ValueAccessors ==
    TrigenIndexAccessors \cup TrigenPairAccessors \cup TetgenIndexAccessors
    \cup TetgenPairAccessors \cup {"out_cell_point"}
Accessors == ValueAccessors \cup TrigenCountAccessors \cup TetgenCountAccessors
GenerateOps == {"generate_delaunay", "generate_voronoi", "generate_mesh"}
RunEntryPoints ==
    {"tri_run_delaunay", "tri_run_voronoi", "tri_run_triangulate", "tet_run_delaunay",
     "tet_run_tetrahedralize"}
\* the last call reached a run entry point of the engine
RunReached == \E i \in 1..Len(last.calls) : last.calls[i] \in RunEntryPoints
\* the completion gate of the generation call recorded in last
GateHolds ==
    /\ all_points_set
    /\ last.op = "generate_mesh" =>
          IF kind = "Trigen" THEN all_segments_set ELSE all_facets_set
\* the error a generation call returns when its gate does not hold: points come first
GateError ==
    CASE kind = "Trigen" /\ last.op = "generate_delaunay" ->
            "cannot generate Delaunay triangulation because not all points are set"
      [] kind = "Trigen" /\ last.op = "generate_voronoi" ->
            "cannot generate Voronoi tessellation because not all points are set"
      [] kind = "Trigen" /\ last.op = "generate_mesh" ->
            IF ~all_points_set
            THEN "cannot generate mesh of triangles because not all points are set"
            ELSE "cannot generate mesh of triangles because not all segments are set"
      [] kind = "Tetgen" /\ last.op = "generate_delaunay" ->
            "cannot generate Delaunay tetrahedralization because not all points are set"
      [] OTHER ->
            IF ~all_points_set
            THEN "cannot generate mesh of tetrahedra because not all points are set"
            ELSE "cannot generate mesh of tetrahedra because not all facets are set"
\* index is a valid index of an array of the given capacity (both usize)
InRange(index, capacity) == index # USIZE_OVER /\ index < capacity

\* C1: a generation call reaches a run entry point of the engine only if the completion
\* gate holds (all_points_set, and for generate_mesh also all_segments_set on a Trigen or
\* all_facets_set on a Tetgen); when the gate does not hold the call returns the
\* "not all ... are set" error, points before segments or facets, and the engine is not
\* called.
C1_GenerationGated ==
    last.op \in GenerateOps =>
        /\ RunReached => GateHolds
        /\ ~GateHolds => (~RunReached /\ last.calls = <<>> /\ last.res = GateError)

\* generate_mesh was refused on a Trigen whose points are complete but whose segments are not
C1_Witness ==
    /\ kind = "Trigen" /\ last.op = "generate_mesh"
    /\ all_points_set /\ ~all_segments_set
    /\ last.res = "cannot generate mesh of triangles because not all segments are set"
    /\ last.calls = <<>>

\* C2: the tracker is sound: whenever a generation call passes the gate and reaches the
\* engine, every point index in 0..npoint-1 has been written successfully at least once,
\* and for generate_mesh on a Trigen every segment index in 0..nsegment-1 as well.
C2_TrackerSound ==
    (last.op \in GenerateOps /\ RunReached) =>
        /\ in_points = 0..(npoint - 1)
        /\ (kind = "Trigen" /\ last.op = "generate_mesh") =>
              in_segments = 0..(Unwrap(nsegment) - 1)

\* C3: the tracker is complete: once every point index in 0..npoint-1 has been written
\* successfully, in whatever order, all_points_set is true and generate_delaunay and
\* generate_voronoi reach the engine; likewise for the segments and generate_mesh.
C3_TrackerComplete ==
    (phase = "live" /\ in_points = 0..(npoint - 1)) =>
        /\ all_points_set
        /\ last.op \in {"generate_delaunay", "generate_voronoi"} => RunReached
        /\ (kind = "Trigen" /\ IsSome(nsegment)
            /\ in_segments = 0..(Unwrap(nsegment) - 1)) =>
              /\ all_segments_set
              /\ last.op = "generate_mesh" => RunReached

\* the segment or facet specification passed to a constructor passes its checks
SpecValid(op, spec) ==
    \/ spec = None
    \/ op = "Trigen::new" /\ ~ULess(Unwrap(spec), 3)
    \/ /\ op = "Tetgen::new"
       /\ Len(Unwrap(spec)) >= 4
       /\ \A k \in 1..Len(Unwrap(spec)) : ~ULess(Unwrap(spec)[k], 3)
AllocationErrors ==
    {"INTERNAL ERROR: cannot allocate ExtTriangle", "INTERNAL ERROR: cannot allocate ExtTetgen"}

\* C4: Trigen::new fails with "npoint must be >= 3" for every npoint < 3 and Tetgen::new
\* with "npoint must be >= 4" for every npoint < 4, before the engine is asked for a handle;
\* for valid values (and when the engine allocates the handle) construction succeeds with
\* the four completion flags false and the capacities equal to the arguments.
C4_NPointValidated ==
    last.op \in {"Trigen::new", "Tetgen::new"} =>
        LET trigen == last.op = "Trigen::new" IN
        IF ULess(last.args[1], IF trigen THEN 3 ELSE 4)
        THEN /\ last.res = IF trigen THEN "npoint must be >= 3" ELSE "npoint must be >= 4"
             /\ last.calls = <<>>
             /\ phase = "none" /\ ext = "null"
        ELSE (SpecValid(last.op, last.args[2]) /\ last.res \notin AllocationErrors) =>
                /\ last.res = Ok /\ phase = "live"
                /\ ~all_points_set /\ ~all_regions_set /\ ~all_holes_set
                /\ IF trigen THEN ~all_segments_set ELSE ~all_facets_set
                /\ npoint = last.args[1]
                /\ (IF trigen THEN nsegment ELSE facet_npoint) = last.args[2]
                /\ nregion = last.args[3] /\ nhole = last.args[4]

ConstructionErrors ==
    {"npoint must be >= 3", "npoint must be >= 4", "nsegment must be >= 3",
     "nfacet must be >= 4", "facet npoint must be >= 3"}

C6_SetterIndexErrors ==
    /\ last.op = "set_point" =>
          last.res = IF InRange(last.args[1], npoint) THEN Ok
                     ELSE "index of point is out of bounds"
    /\ (last.op = "set_segment" /\ IsSome(nsegment)) =>
          last.res = IF ~InRange(last.args[1], Unwrap(nsegment))
                     THEN "index of segment is out of bounds"
                     ELSE IF ~InRange(last.args[2], npoint) \/ ~InRange(last.args[3], npoint)
                     THEN "id of segment point is out of bounds"
                     ELSE Ok
    /\ (last.op = "set_facet_point" /\ IsSome(facet_npoint)) =>
          last.res = IF ~InRange(last.args[1], Len(Unwrap(facet_npoint)))
                     THEN "index of facet is out of bounds"
                     ELSE IF ~InRange(last.args[2], Unwrap(facet_npoint)[last.args[1] + 1])
                     THEN "index of facet point is out of bounds"
                     ELSE IF ~InRange(last.args[3], npoint)
                     THEN "id of facet point is out of bounds"
                     ELSE Ok

\* the capacity a setter writes into (an Option), its errors and its completion flag
SetterCapacity ==
    CASE last.op = "set_segment" -> nsegment
      [] last.op \in {"set_facet_point", "set_facet_marker"} ->
            IF IsSome(facet_npoint) THEN Some(Len(Unwrap(facet_npoint))) ELSE None
      [] last.op = "set_region" -> nregion
      [] OTHER -> nhole
NotDeclaredError ==
    CASE last.op = "set_segment" -> "cannot set segment because the number of segments is None"
      [] last.op = "set_facet_point" -> "cannot set facet point because facet_npoint is None"
      [] last.op = "set_facet_marker" -> "cannot set facet marker because facet_npoint is None"
      [] last.op = "set_region" -> "cannot set region because the number of regions is None"
      [] OTHER -> "cannot set hole because the number of holes is None"
OutOfBoundsError ==
    CASE last.op = "set_segment" -> "index of segment is out of bounds"
      [] last.op \in {"set_facet_point", "set_facet_marker"} -> "index of facet is out of bounds"
      [] last.op = "set_region" -> "index of region is out of bounds"
      [] OTHER -> "index of hole is out of bounds"
SetterFlag ==
    CASE last.op = "set_segment" -> all_segments_set
      [] last.op \in {"set_facet_point", "set_facet_marker"} -> all_facets_set
      [] last.op = "set_region" -> all_regions_set
      [] OTHER -> all_holes_set

\* C7: a setter of an entity whose capacity is None returns the not-declared error for
\* every index, without calling the engine and with its completion flag still false; when
\* the capacity is declared, an index at or above it yields the index-out-of-bounds error.
C7_CapabilityNotDeclared ==
    last.op \in {"set_segment", "set_facet_point", "set_facet_marker", "set_region",
                 "set_hole"} =>
        IF SetterCapacity = None
        THEN last.res = NotDeclaredError /\ last.calls = <<>> /\ ~SetterFlag
        ELSE ~InRange(last.args[1], Unwrap(SetterCapacity)) => last.res = OutOfBoundsError

\* the value accessor recorded in last was called with an index outside its output array
OutOfRange ==
    LET dimension == IF kind = "Trigen" THEN 2 ELSE 3 IN
    CASE last.op = "out_point" ->
            ~InRange(last.args[1], out.npoint) \/ ~InRange(last.args[2], dimension)
      [] last.op = "out_point_marker" -> ~InRange(last.args[1], out.npoint)
      [] last.op = "out_cell_attribute" -> ~InRange(last.args[1], out.ncell)
      [] last.op = "out_segment_point" ->
            ~InRange(last.args[1], out.nsegment) \/ ~InRange(last.args[2], 2)
      [] last.op = "out_voronoi_point" ->
            ~InRange(last.args[1], Len(out.voronoi_points)) \/ ~InRange(last.args[2], 2)
      [] last.op \in {"out_voronoi_edge_point_a", "out_voronoi_edge_point_b"} ->
            ~InRange(last.args[1], Len(out.voronoi_edges))
      [] OTHER -> FALSE

\* C8: a value accessor (out_point, out_point_marker, out_cell_attribute,
\* out_segment_point, out_voronoi_point, out_voronoi_edge_point_a,
\* out_voronoi_edge_point_b) called with an out-of-range index, in any state of the
\* builder, returns the zero of its type (0, 0.0, Index(0)): no error, no panic.
C8_OutOfRangeDefaults ==
    OutOfRange =>
        /\ last.res = IF last.op = "out_voronoi_edge_point_b" THEN "Index" ELSE "Value"
        /\ last.val = <<0>>
        /\ phase # "panicked"

\* C9: out_cell_point(index, m) returns 0, without a panic, whenever index >= out_ncell or
\* m >= out_cell_npoint, also for m past the end of the node-ordering table (6 entries on
\* a Trigen, 10 on a Tetgen); stated for the arguments that fit an i32.
C9_CellPointOutOfRange ==
    (last.op = "out_cell_point" /\ AllFit(last.args)
     /\ (~InRange(last.args[1], out.ncell) \/ ~InRange(last.args[2], out.cell_npoint))) =>
        /\ last.res = "Value" /\ last.val = <<0>>
        /\ phase # "panicked"

\* what the accessor call recorded in last returns when it is made in the current state
ReturnsNow ==
    IF kind = "Trigen" THEN Trigen_accessor(last.op, last.args)
    ELSE Tetgen_accessor(last.op, last.args)

MidsideEnds(m) ==
    IF kind = "Trigen"
    THEN CASE m = 3 -> <<0, 1>> [] m = 4 -> <<1, 2>> [] OTHER -> <<2, 0>>
    ELSE CASE m = 4 -> <<0, 1>> [] m = 5 -> <<1, 2>> [] m = 6 -> <<2, 0>>
           [] m = 7 -> <<0, 3>> [] m = 8 -> <<1, 3>> [] OTHER -> <<2, 3>>
\* what out_cell_point(index, m) returns in the current state
CellPointNow(index, m) ==
    IF kind = "Trigen" THEN Trigen_out_cell_point(index, m)
    ELSE Tetgen_out_cell_point(index, m)
\* the coordinates of output point id (twice their value)
PointOf(id) == out.points[id + 1]
\* p is the middle of a and b
Midway(p, a, b) == \A d \in 1..Len(p) : 2 * p[d] = a[d] + b[d]
\* table is a bijection on 0..Len(table)-1 that fixes the first `corners` entries
Permutes(table, corners) ==
    /\ {table[k] : k \in 1..Len(table)} = 0..(Len(table) - 1)
    /\ \A k \in 1..corners : table[k] = k - 1

\* C11: out_cell_point(index, m) with both arguments in range returns the point id the
\* engine stores at corner TABLE[m] of the cell; the tables are <<0,1,2,5,3,4>> for
\* triangles and <<0,1,2,3,6,7,9,5,8,4>> for tetrahedra, bijections that fix the corner
\* nodes; and the point returned for a mid-side node lies midway between the points
\* returned for the two corner nodes of its edge (0-1, 1-2, 2-0 for nodes 3, 4, 5 of a
\* triangle).
C11_NodeOrdering ==
    /\ TRITET_TO_TRIANGLE = <<0, 1, 2, 5, 3, 4>>
    /\ TRITET_TO_TETGEN = <<0, 1, 2, 3, 6, 7, 9, 5, 8, 4>>
    /\ Permutes(TRITET_TO_TRIANGLE, 3) /\ Permutes(TRITET_TO_TETGEN, 4)
    /\ (/\ last.op = "out_cell_point" /\ phase = "live"
        /\ InRange(last.args[1], out.ncell) /\ InRange(last.args[2], out.cell_npoint)) =>
          LET index == last.args[1]
              m == last.args[2]
              table == IF kind = "Trigen" THEN TRITET_TO_TRIANGLE ELSE TRITET_TO_TETGEN
              corners == IF kind = "Trigen" THEN 3 ELSE 4
          IN /\ last.res = "Value"
             /\ last.val = <<out.cells[index + 1][table[m + 1] + 1]>>
             /\ m < corners => last.val = <<out.cells[index + 1][m + 1]>>
             /\ m >= corners =>
                   Midway(PointOf(last.val[1]),
                          PointOf(CellPointNow(index, MidsideEnds(m)[1]).val[1]),
                          PointOf(CellPointNow(index, MidsideEnds(m)[2]).val[1]))

\* node 3 of the second-order triangle was read: it is point 3, the engine's corner 5
C11_Witness ==
    /\ kind = "Trigen" /\ out.cell_npoint = 6
    /\ last.op = "out_cell_point" /\ last.args = <<0, 3>>
    /\ last.res = "Value" /\ last.val = <<3>>
    /\ out.cells[1][6] = 3

\* C12: for every Voronoi edge e of the output, out_voronoi_edge_point_b(e) returns
\* Direction(dx, dy), with dx and dy the direction the engine stores for edge e, exactly
\* when the second end the engine stores for e is -1, and otherwise Index(id) with id that
\* second end, a vertex index that is not negative.
C12_VoronoiEdgeClassified ==
    (/\ last.op = "out_voronoi_edge_point_b"
     /\ InRange(last.args[1], Len(out.voronoi_edges))) =>
        LET e == last.args[1] + 1
            second == out.voronoi_edges[e][2]
        IN IF second = -1
           THEN last.res = "Direction" /\ last.val = out.voronoi_directions[e]
           ELSE /\ last.res = "Index" /\ last.val = <<second>>
                /\ second >= 0 /\ second < Len(out.voronoi_points)

\* the bounded edge of the four-point diagram was read: it ends at Voronoi vertex 1
C12_Witness ==
    /\ last.op = "out_voronoi_edge_point_b" /\ last.args = <<1>>
    /\ Len(out.voronoi_edges) = 5
    /\ last.res = "Index" /\ last.val = <<1>>

\* C13: write_vtu called while the output holds no cell returns the error "there are no
\* triangles to write" (Trigen) or "there are no tetrahedra to write" (Tetgen) and leaves
\* the file system as it was: no directory and no file is created.
C13_WriteVtuNoCells ==
    [][(last'.op = "write_vtu" /\ out.ncell = 0) =>
          /\ last'.res = IF kind = "Trigen" THEN "there are no triangles to write"
                         ELSE "there are no tetrahedra to write"
          /\ fs' = fs]_vars

\* write_vtu was refused on a builder without cells and the path is still untouched
C13_Witness ==
    /\ last.op = "write_vtu" /\ out.ncell = 0
    /\ last.res = "there are no tetrahedra to write"
    /\ fs = [dir |-> FALSE, file |-> "absent"]

\* the engine functions that take the handle of the builder
HandleCalls(call) == call.calls # <<>> /\ call.op \notin {"Trigen::new", "Tetgen::new"}

\* C14: a builder that was constructed owns one engine handle, which is live until the
\* builder is torn down; the release function is called once, by the teardown, and never
\* before; after the release no engine function is called with the handle; and a
\* construction that fails (by an error or a panic) leaves no live handle behind.
C14_HandleReleasedOnce ==
    /\ ext = "live" <=> (kind # "none" /\ phase \in {"live", "panicked"})
    /\ ext = "released" <=> phase = "dropped"
    /\ ndrop = IF phase = "dropped" THEN 1 ELSE 0
    /\ phase = "dropped" =>
          /\ last.op = "drop"
          /\ last.calls \in {<<"tri_drop_trigen">>, <<"tet_drop_tetgen">>}
    /\ HandleCalls(last) /\ last.op # "drop" => ext = "live"
    /\ (last.op \in {"Trigen::new", "Tetgen::new"} /\ last.res # Ok) =>
          (ext = "null" /\ ndrop = 0)

\* a builder that had produced a mesh was torn down and its handle released once
C14_Witness ==
    /\ phase = "dropped" /\ ext = "released" /\ ndrop = 1
    /\ last.op = "drop" /\ out.ncell > 0

\* C15: when several threads each use their own builder, the calls of the engine are
\* serialised: in no interleaving are two threads inside an engine function at once.
C15_EngineSerialised ==
    \A t \in Threads, u \in Threads :
        (threads[t].inside /\ threads[u].inside) => t = u

\* the setters of both builders
SetterOps ==
    {"set_point", "set_segment", "set_facet_point", "set_facet_marker", "set_region",
     "set_hole"}

\* C16: no setter, generation call or accessor ends the process, whatever index it is
\* given: with an index that does not fit the engine's 32-bit signed integers a setter
\* returns an error and a value accessor returns the zero of its type.
C16_NoTermination ==
    last.op \in SetterOps \cup GenerateOps \cup Accessors =>
        /\ last.res # PANIC
        /\ phase # "panicked"
        /\ ~AllFit(last.args) =>
              /\ last.op \in SetterOps => last.res \notin {Ok, "Value", "Index", "Direction"}
              /\ last.op \in ValueAccessors =>
                    last.res \in {"Value", "Index"} /\ last.val = <<0>>

C18_FacetOrderIndependent ==
    (/\ kind = "Tetgen" /\ IsSome(facet_npoint)
     /\ last.op = "set_facet_point" /\ last.res = Ok
     /\ in_facets = DeclaredFacetPairs
     /\ ~facet_rewritten) => all_facets_set

\* C19: facet completeness is exact: in every state of a Tetgen builder all_facets_set is
\* true only if every declared (facet, corner) pair has been written successfully at
\* least once; repeating a corner, or writing fewer corners than declared, never sets it.
C19_FacetsExact ==
    (kind = "Tetgen" /\ all_facets_set) =>
        (IsSome(facet_npoint) /\ DeclaredFacetPairs \subseteq in_facets)

\* what a successful call of the setter `op` may change of the tracker: its own flag, and
\* for set_facet_point the counter too; everything else of the tracker stays
OthersUnchanged(op) ==
    /\ op # "set_point" => UNCHANGED all_points_set
    /\ op # "set_segment" => UNCHANGED all_segments_set
    /\ op # "set_region" => UNCHANGED all_regions_set
    /\ op # "set_hole" => UNCHANGED all_holes_set
    /\ op # "set_facet_point" => UNCHANGED <<all_facets_set, facet_point_set_count>>

\* C20: a successful setter changes no tracker state but its own (set_point only
\* all_points_set, set_segment only all_segments_set, set_region only all_regions_set,
\* set_hole only all_holes_set, set_facet_point only facet_point_set_count and
\* all_facets_set, set_facet_marker nothing); a setter that returns an error changes no
\* tracker state at all; and no operation changes the capacities of a constructed builder.
C20_SetterFrame ==
    [][/\ (last'.op \in SetterOps /\ last'.res = Ok) => OthersUnchanged(last'.op)
       /\ (last'.op \in SetterOps /\ last'.res \notin {Ok, PANIC}) => UNCHANGED tracker
       /\ phase # "none" => UNCHANGED <<kind, capacities>>]_vars

\* set_segment was refused for a bad index on a builder whose points were complete, and
\* the point flag is still set
C20_Witness ==
    /\ last.op = "set_segment" /\ last.res = "index of segment is out of bounds"
    /\ all_points_set /\ ~all_segments_set
    /\ npoint = MaxNPoint

\* C21: a generation call whose gate passed and whose engine run reports a status other
\* than success returns an error (not a panic) after calling the engine's run function
\* exactly once, and leaves the completion flags, the facet counter and the capacities as
\* they were, so the same call is again subject to the same gate.
C21_EngineFailureReturned ==
    [][(last'.op \in GenerateOps /\ last'.calls # <<>> /\ last'.res # Ok) =>
          /\ last'.res # PANIC /\ phase' = "live"
          /\ Len(last'.calls) = 1 /\ last'.calls[1] \in RunEntryPoints
          /\ all_points_set
          /\ UNCHANGED builder]_vars

\* Tetgen's generate_delaunay reported coplanar points; the points are still complete
C21_Witness ==
    /\ kind = "Tetgen" /\ last.op = "generate_delaunay"
    /\ last.res = "TetGen failed: points are probably coplanar"
    /\ last.calls = <<"tet_run_delaunay">>
    /\ all_points_set /\ phase = "live"

\* the rays of the Voronoi output whose direction is zero on exactly one axis and that
\* start strictly inside the box of the points on the other axis, so that the distance to
\* the edge of the box in the direction of travel is positive
AxisRays ==
    {e \in 0..(Len(out.voronoi_edges) - 1) :
        LET origin == out.voronoi_points[out.voronoi_edges[e + 1][1] + 1]
            d == out.voronoi_directions[e + 1]
            axis == IF d[1] = 0 THEN 2 ELSE 1
        IN /\ out.voronoi_edges[e + 1][2] = -1
           /\ (d[1] = 0) # (d[2] = 0)
           /\ IF d[axis] > 0 THEN FLess(<<origin[axis], 1>>, DrawBox.max[axis])
              ELSE FLess(DrawBox.min[axis], <<origin[axis], 1>>)}

\* the segment goes from the origin of ray e a positive distance along its direction
DrawnAlong(segment, e) ==
    LET origin == out.voronoi_points[out.voronoi_edges[e + 1][1] + 1]
        d == out.voronoi_directions[e + 1]
        ux == <<segment[3][1] - origin[1] * segment[3][2], segment[3][2]>>
        uy == <<segment[4][1] - origin[2] * segment[4][2], segment[4][2]>>
    IN /\ segment[1] = <<origin[1], 1>> /\ segment[2] = <<origin[2], 1>>
       /\ ux[1] * d[2] * uy[2] = uy[1] * d[1] * ux[2]
       /\ ux[1] * d[1] >= 0 /\ uy[1] * d[2] >= 0
       /\ ux[1] # 0 \/ uy[1] # 0

\* C22: draw_voronoi clips a ray whose direction is zero on one axis by the other axis
\* alone: when the distance to the box along the other axis is positive the ray is drawn
\* from its origin along its direction.
C22_AxisRayDrawn ==
    (last.op = "draw_voronoi" /\ last.val # <<>>) =>
        \A e \in AxisRays :
            \E k \in 1..Len(last.val[1].canvas) : DrawnAlong(last.val[1].canvas[k], e)


\* the number of nodes of a cell of the given type code
VtkNodes(type) ==
    CASE type = VTK_TRIANGLE -> 3
      [] type = VTK_QUADRATIC_TRIANGLE -> 6
      [] type = VTK_TETRA -> 4
      [] type = VTK_QUADRATIC_TETRA -> 10

\* out_cell_point(index, m) of the builder that wrote the document
WrittenCellPoint(index, m) ==
    IF kind = "Trigen" THEN Trigen_out_cell_point(index, m).val[1]
    ELSE Tetgen_out_cell_point(index, m).val[1]

\* C23: in every document written by write_vtu the offsets are the running sum of the
\* node counts of the cells (strictly increasing, the last one the length of the
\* connectivity), the connectivity, offsets and types blocks describe exactly NumberOfCells
\* cells, and volume cell i contributes its out_cell_npoint() ids out_cell_point(i, m) in
\* the order m = 0, 1, ...
C23_CellBlocksConsistent ==
    (last.op = "write_vtu" /\ last.val # <<>>) =>
        LET d == last.val[1]
            n == d.NumberOfCells
            nnode == out.cell_npoint
            Before(k) == IF k = 1 THEN 0 ELSE d.offsets[k - 1]
        IN /\ n >= out.ncell /\ n >= 1
           /\ Len(d.offsets) = n /\ Len(d.types) = n
           /\ \A k \in 1..n :
                 /\ d.offsets[k] = Before(k) + VtkNodes(d.types[k])
                 /\ d.offsets[k] > Before(k)
           /\ d.offsets[n] = Len(d.connectivity)
           /\ \A k \in 1..out.ncell :
                 /\ VtkNodes(d.types[k]) = nnode
                 /\ \A m \in 0..(nnode - 1) :
                       d.connectivity[Before(k) + m + 1] = WrittenCellPoint(k - 1, m)

\* a second-order tetrahedron and its four marked faces were written: ten ids, then four
\* times three
C23_Witness ==
    /\ kind = "Tetgen" /\ last.op = "write_vtu" /\ last.res = Ok /\ last.val # <<>>
    /\ out.cell_npoint = 10
    /\ last.val[1].NumberOfCells = 5
    /\ last.val[1].offsets = <<10, 13, 16, 19, 22>>
    /\ Len(last.val[1].connectivity) = 22
    /\ SubSeq(last.val[1].connectivity, 1, 10) = <<0, 1, 2, 3, 4, 5, 6, 7, 8, 9>>


\* C24: the document of Tetgen::write_vtu declares out_ncell() + out_n_marked_face() cells,
\* the tetrahedra first and the marked faces after them in index order, and entry i of the
\* types block and entry i of the attribute block are about the same cell: the code of the
\* volume cell with out_cell_attribute(i) for i < out_ncell(), the code of the triangle with
\* the marker of marked face i - out_ncell() otherwise, whose three ids in the connectivity
\* are the corners of that face
C24_FacesAfterCells ==
    (kind = "Tetgen" /\ last.op = "write_vtu" /\ last.val # <<>>) =>
        LET d == last.val[1]
            ntet == out.ncell
            nface == Len(out.marked_faces)
            nnode == out.cell_npoint
        IN /\ d.NumberOfCells = ntet + nface
           /\ Len(d.types) = ntet + nface /\ Len(d.attribute) = ntet + nface
           /\ Len(d.connectivity) = ntet * nnode + FACE_NNODE * nface
           /\ \A i \in 0..(ntet - 1) :
                 /\ d.types[i + 1] = IF nnode = 4 THEN VTK_TETRA ELSE VTK_QUADRATIC_TETRA
                 /\ d.attribute[i + 1] = Tetgen_out_cell_attribute(i).val[1]
           /\ \A f \in 0..(nface - 1) :
                 LET i == ntet + f
                     face == out.marked_faces[f + 1]
                     start == ntet * nnode + FACE_NNODE * f
                 IN /\ d.types[i + 1] = VTK_TRIANGLE
                    /\ d.attribute[i + 1] = face.marker
                    /\ SubSeq(d.connectivity, start + 1, start + FACE_NNODE)
                          = SubSeq(face.points, 1, FACE_NNODE)

\* a tetrahedron with attribute 1 and its four marked faces were written
C24_Witness ==
    /\ kind = "Tetgen" /\ last.op = "write_vtu" /\ last.res = Ok /\ last.val # <<>>
    /\ out.ncell = 1 /\ out.cell_npoint = 4 /\ Len(out.marked_faces) = 4
    /\ last.val[1].types = <<10, 5, 5, 5, 5>>
    /\ last.val[1].attribute = <<1, -10, -20, -30, -40>>
    /\ last.val[1].connectivity = <<0, 1, 2, 3, 0, 2, 1, 0, 1, 3, 0, 3, 2, 1, 2, 3>>


\* C25: generate_mesh passes a global maximal size and a minimal angle given as Some(v) to
\* the engine as v, and passes 0 for one that is None; set_region passes a maximal area or
\* volume given as Some(v) as v, and passes -1 for None
C25_ConstraintsPassed ==
    /\ (last.op = "generate_mesh" /\ last.calls # <<>>) => Len(last.passed) = 2
    /\ (last.op = "set_region" /\ last.res = Ok) => Len(last.passed) = 1
    /\ \A k \in 1..Len(last.passed) :
          LET given == last.passed[k][1]
              value == last.passed[k][2]
          IN /\ last.op \in {"generate_mesh", "set_region"}
             /\ IsSome(given) => value = Unwrap(given)
             /\ (given = None /\ last.op = "generate_mesh") => value = 0
             /\ (given = None /\ last.op = "set_region") => value = -1

\* generate_mesh ran the engine with a maximal size and no minimal angle
C25_Witness ==
    /\ last.op = "generate_mesh" /\ last.res = Ok
    /\ last.passed = <<<<Some(1), 1>>, <<None, 0>>>>


\* face.key: the three corner ids of a marked face, sorted ascending (key.sort())
FaceKey(points) ==
    LET a == points[1]
        b == points[2]
        c == points[3]
        lo == IF a <= b /\ a <= c THEN a ELSE IF b <= c THEN b ELSE c
        hi == IF a >= b /\ a >= c THEN a ELSE IF b >= c THEN b ELSE c
    IN <<lo, a + b + c - lo - hi, hi>>

\* the marked faces handed to the caller: out_marked_face(i) for i in 0..out_n_marked_face()
ReturnedFaces ==
    [i \in 1..Tetgen_out_n_marked_face.val[1] |->
        LET face == Tetgen_out_marked_face(i - 1).val
        IN [points |-> SubSeq(face, 3, 8), marker |-> face[1], cell |-> face[2]]]

\* marked-face records: three corner ids followed by three mid-edge ids (0 if there are none)
FaceRecords ==
    {corners \o mids : corners \in [1..FACE_NNODE -> 0..4], mids \in {<<0, 0, 0>>, <<5, 6, 7>>}}
\* the set of the three corners of a record
Corners(points) == {points[1], points[2], points[3]}

\* the key depends on the set of corners only, and on all of it
KeyOfCornerSet ==
    \A p \in FaceRecords, q \in FaceRecords :
        (Cardinality(Corners(p)) = 3 /\ Cardinality(Corners(q)) = 3) =>
            (FaceKey(p) = FaceKey(q) <=> Corners(p) = Corners(q))

NoBoundary ==
    /\ phase # "none"
    /\ IF kind = "Trigen" THEN nsegment = None ELSE facet_npoint = None

\* C28: on a builder constructed with nsegment = None (Trigen) or facet_npoint = None
\* (Tetgen) the flag all_segments_set / all_facets_set is false in every reachable state and
\* every generate_mesh returns the error of an incomplete input without calling the engine,
\* while generate_delaunay still runs the engine
C28_NoBoundaryNoMesh ==
    NoBoundary =>
        /\ IF kind = "Trigen" THEN ~all_segments_set ELSE ~all_facets_set
        /\ last.op = "generate_mesh" =>
              /\ last.calls = <<>> /\ last.passed = <<>>
              /\ last.res = GateError
              /\ last.res \in
                    {"cannot generate mesh of triangles because not all points are set",
                     "cannot generate mesh of triangles because not all segments are set",
                     "cannot generate mesh of tetrahedra because not all points are set",
                     "cannot generate mesh of tetrahedra because not all facets are set"}
        /\ (last.op = "generate_delaunay" /\ all_points_set) =>
              (last.calls # <<>> /\ last.calls[1] \in RunEntryPoints)

\* on a Tetgen without facets whose points are all set, generate_mesh was refused for the
\* facets
C28_Witness ==
    /\ NoBoundary /\ kind = "Tetgen" /\ phase = "live" /\ all_points_set
    /\ last.op = "generate_mesh"
    /\ last.res = "cannot generate mesh of tetrahedra because not all facets are set"

\* on a builder without segments or facets generate_delaunay succeeded
DelaunayWithoutBoundary ==
    NoBoundary /\ last.op = "generate_delaunay" /\ last.res = Ok /\ out.ncell > 0


\* facet_point_set_count == total_facet_npoint implies all_facets_set, on every Tetgen
TetgenCounterImpliesFlag ==
    (kind = "Tetgen" /\ phase # "none" /\ facet_point_set_count = total_facet_npoint)
        => all_facets_set

\* the same on the builders constructed with facets
FacetedCounterImpliesFlag ==
    (kind = "Tetgen" /\ phase # "none" /\ IsSome(facet_npoint)
     /\ facet_point_set_count = total_facet_npoint) => all_facets_set

\* all_facets_set is never cleared, while a write of a point other than the last one leaves
\* all_points_set false
FacetsFlagKept ==
    /\ all_facets_set => all_facets_set'
    /\ (last'.op = "set_point" /\ last'.res = Ok /\ last'.args[1] # npoint - 1)
          => ~all_points_set'

\* C29 as stated: all_facets_set once true stays true under every operation, and in every
\* reachable state facet_point_set_count == total_facet_npoint implies all_facets_set
C29_FacetsFlagMonotone == [][FacetsFlagKept]_vars /\ []TetgenCounterImpliesFlag

\* C29 amended: all_facets_set once true stays true under every operation (also under a
\* write of corner 0 of facet 0, which resets the counter), unlike all_points_set; on a
\* Tetgen constructed with facets, facet_point_set_count == total_facet_npoint implies
\* all_facets_set in every reachable state
C29_FacetsFlagMonotoneWithFacets == [][FacetsFlagKept]_vars /\ []FacetedCounterImpliesFlag

\* the facets were complete, then corner 0 of facet 0 was written again: the counter is
\* back at 1 and the flag is still true
C29_Witness ==
    /\ kind = "Tetgen" /\ phase = "live" /\ all_facets_set
    /\ last.op = "set_facet_point" /\ last.res = Ok /\ last.args[1] = 0 /\ last.args[2] = 0
    /\ facet_point_set_count = 1 /\ facet_point_set_count # total_facet_npoint


\* C30: all_regions_set and all_holes_set do not gate generation: whenever all_points_set
\* and all_segments_set (Trigen) or all_facets_set (Tetgen) are true, generate_mesh calls
\* the engine and returns what the run gives, whether or not the declared regions and holes
\* were written; it is refused only with the error of the points or of the segments/facets
C30_RegionsHolesNotGated ==
    (last.op = "generate_mesh" /\ phase = "live") =>
        LET boundary == IF kind = "Trigen" THEN all_segments_set ELSE all_facets_set
        IN IF all_points_set /\ boundary
           THEN /\ Len(last.calls) = 1 /\ last.calls[1] \in RunEntryPoints
                /\ last.res \notin
                      {"cannot generate mesh of triangles because not all points are set",
                       "cannot generate mesh of triangles because not all segments are set",
                       "cannot generate mesh of tetrahedra because not all points are set",
                       "cannot generate mesh of tetrahedra because not all facets are set"}
           ELSE last.calls = <<>> /\ last.res = GateError

\* regions and holes were declared, none of the flags is true, and generate_mesh succeeded
C30_Witness ==
    /\ kind = "Trigen" /\ phase = "live"
    /\ IsSome(nregion) /\ IsSome(nhole) /\ ~all_regions_set /\ ~all_holes_set
    /\ all_points_set /\ all_segments_set
    /\ last.op = "generate_mesh" /\ last.res = Ok /\ last.calls = <<"tri_run_triangulate">>
    /\ out.ncell > 0
====
